---- MODULE Spec2Model ----
(***************************************************************************)
(* A model of the mock payout API of HandsOnExerciseABC/payment-api.js:    *)
(* the in-memory ledger (project balances, payout records, rate-limit      *)
(* windows, callback log), the failure-injection configuration and the     *)
(* request handlers that change them.                                      *)
(*                                                                         *)
(* Node runs one handler at a time and a handler gives up control only at  *)
(* an await, so every action below is the code between two awaits of one   *)
(* handler.  POST /api/v1/payouts has two awaits: simulateDelay() on entry *)
(* (line 154) and the 2000 ms timer of the failure injection (line 276).   *)
(*                                                                         *)
(* Conventions.  JavaScript's falsy values of a string field (undefined,   *)
(* null, "") are all written "" here, because the code only ever tests     *)
(* such a field for truthiness; an amount is a pair (hasAmount, amount) so *)
(* that an absent amount and a zero amount stay two different inputs.  A   *)
(* URL is a sequence of one-character strings.  timeoutRate and the value  *)
(* of Math.random() are in hundredths (5 is 0.05).                         *)
(***************************************************************************)
EXTENDS Integers, Sequences, FiniteSets, TLC

(***************************************************************************)
(* Bounds of the model.                                                    *)
(***************************************************************************)
\* request slots; requests of the ledger and validation specifications; fundings;
\* request slots of the specifications that fill a recipient's rate window;
\* requests of one recipient that may be in flight together; requests of that
\* recipient paid by the other project; requests with arbitrary fields among the
\* payouts that fill the rate window; entries of the callback log after which
\* no further request that logs a callback is made, in the lifecycle
\* specification and in the callback specification; repeated requests with the
\* key of the first payout
MaxReq == 3
MaxLedgerReq == 2
MaxFund == 1
MaxRateReq == 12
MaxInFlight == 2
MaxOtherReq == 1
MaxProbes == 1
MaxCallbacks == 2
MaxLogged == 3
MaxReplays == 2

(***************************************************************************)
(* Constants of the program.                                               *)
(***************************************************************************)
SEED_BALANCE == 100000
MAX_DESCRIPTION_LENGTH == 144
DEFAULT_EXPIRY_SECONDS == 300
MIN_AMOUNT == 1
MAX_AMOUNT == 100000
RATE_LIMIT == 10
RATE_WINDOW_MS == 3600000
RETRY_AFTER == 3600
DEFAULT_TIMEOUT_RATE == 5
SEED_PROJECT == "project_test_001"
OTHER_PROJECT == "project_test_002"

PAYOUT_STATUS == [PENDING |-> "pending", COMPLETED |-> "completed",
                  EXPIRED |-> "expired", ERROR |-> "error"]
VALID_STATUSES == {PAYOUT_STATUS.PENDING, PAYOUT_STATUS.COMPLETED,
                   PAYOUT_STATUS.EXPIRED, PAYOUT_STATUS.ERROR}

VARIABLES
    payouts,          \* the payouts Map, as the sequence of its values in insertion order
    rateLimits,       \* the rateLimits Map: gamertag -> sequence of timestamps
    projectBalances,  \* the projectBalances Map: project id -> balance
    callbackLog,      \* the callbackLog array
    failureInjection, \* [enabled, timeoutRate, rollbackOnTimeout]
    now,              \* Date.now(), in ms
    pc,               \* per POST /payouts request: "idle", "delay", "timeout" or "done"
    req,              \* per request: its body
    loc,              \* per request: the locals that live across the await of line 276
    res,              \* per request: the response sent
    funded,           \* history: per project, the sum of the accepted fundings since the last reset
    nFund,            \* history: the number of accepted fundings
    wasReset,         \* history: whether DELETE /test/reset ever ran
    last              \* the response of the latest request to another handler than POST /payouts

vars == <<payouts, rateLimits, projectBalances, callbackLog, failureInjection, now,
          pc, req, loc, res, funded, nFund, wasReset, last>>

\* The request slots of the behaviour: MaxReq or MaxRateReq of them.
Requests == DOMAIN pc
LedgerRequests == 1..MaxLedgerReq
Projects == {SEED_PROJECT, OTHER_PROJECT}

(***************************************************************************)
(* Helpers.                                                                *)
(***************************************************************************)
Min(a, b) == IF a < b THEN a ELSE b
Max(a, b) == IF a > b THEN a ELSE b

\* Map.get(k) || 0 on a Map of numbers.
GetOrZero(m, k) == IF k \in DOMAIN m THEN m[k] ELSE 0

\* Map.set(k, v).
MapSet(m, k, v) == [x \in (DOMAIN m) \cup {k} |-> IF x = k THEN v ELSE m[x]]

\* Array.prototype.filter(t => t > lo) on a sequence of numbers.
FilterAbove(s, lo) == SelectSeq(s, LAMBDA t : t > lo)

NoRequest == [gamertag |-> "", hasAmount |-> FALSE, amount |-> 0, projectId |-> "",
              idempotencyKey |-> "", callbackUrl |-> <<>>, expiresIn |-> 0,
              description |-> 0, internalId |-> ""]
NoLocals == [balance |-> 0, totalCost |-> 0]
NoResponse == [status |-> 0, error |-> "", data |-> [none |-> TRUE]]

(***************************************************************************)
(* The pure parts of POST /api/v1/payouts.                                 *)
(***************************************************************************)
\* Mutant: the fee is rounded down.
FeeFloor(amount) == (2 * amount) \div 100

\* Math.ceil(amount * SERVICE_FEE_PERCENT); the double product rounds to the
\* integer ceiling of 2% for every amount the range check lets through.
Fee(amount) == (2 * amount + 99) \div 100

\* !gamertag || !amount || !projectId
MissingFields(q) ==
    \/ q.gamertag = ""
    \/ ~q.hasAmount \/ q.amount = 0
    \/ q.projectId = ""

\* Mutant: the description is checked before the range.
AmountOutOfRangeAfterDescription(q) ==
    (q.amount < MIN_AMOUNT \/ q.amount > MAX_AMOUNT) /\ q.description <= MAX_DESCRIPTION_LENGTH

\* amount < 1 || amount > 100000
AmountOutOfRange(q) == q.amount < MIN_AMOUNT \/ q.amount > MAX_AMOUNT

\* description && description.length > MAX_DESCRIPTION_LENGTH
DescriptionTooLong(q) == q.description > MAX_DESCRIPTION_LENGTH

\* url.match(/^https?:\/\/.+/)
MatchesHttpUrl(u) ==
    LET pre == <<"h", "t", "t", "p">>
        sep == <<":", "/", "/">>
        StartsWith(s, p) == Len(s) >= Len(p) /\ SubSeq(s, 1, Len(p)) = p
        rest == SubSeq(u, 5, Len(u))
        afterS == SubSeq(u, 6, Len(u))
    IN  /\ StartsWith(u, pre)
        /\ \/ StartsWith(rest, sep) /\ Len(rest) > Len(sep)
           \/ /\ StartsWith(rest, <<"s">>)
              /\ StartsWith(afterS, sep) /\ Len(afterS) > Len(sep)

\* callbackUrl && !callbackUrl.match(...)
InvalidCallbackUrl(q) == q.callbackUrl # <<>> /\ ~MatchesHttpUrl(q.callbackUrl)

\* Mutant: the lookup compares the wrong field of the stored payout.
KeyMatchesInternalId(p, q) == p.internalId = q.idempotencyKey

\* Mutant: a payout only matches a request for the same recipient and amount.
KeyMatchesSameRequest(p, q) ==
    p.idempotencyKey = q.idempotencyKey /\ p.gamertag = q.gamertag /\ p.amount = q.amount

\* p => p.idempotencyKey === idempotencyKey
KeyMatches(p, q) == p.idempotencyKey = q.idempotencyKey

\* Mutant: the idempotency lookup is skipped.
FindExistingNone(ps, q) == 0

\* Mutant: the lookup is skipped for a recipient at the rate limit.
FindExistingUnlessLimited(ps, q) ==
    IF q.idempotencyKey = "" THEN 0
    ELSE IF q.gamertag \in DOMAIN rateLimits /\ Len(rateLimits[q.gamertag]) >= RATE_LIMIT THEN 0
    ELSE LET hits == {i \in 1..Len(ps) : KeyMatches(ps[i], q)}
         IN  IF hits = {} THEN 0 ELSE CHOOSE i \in hits : \A j \in hits : i <= j

\* if (idempotencyKey) { existing = Array.from(payouts.values()).find(...) }:
\* the index of the first payout with the request's key, 0 if none or no key.
FindExisting(ps, q) ==
    IF q.idempotencyKey = "" THEN 0
    ELSE LET hits == {i \in 1..Len(ps) : KeyMatches(ps[i], q)}
         IN  IF hits = {} THEN 0 ELSE CHOOSE i \in hits : \A j \in hits : i <= j

\* Mutant: the window is never pruned.
CheckRateLimitNoPrune(rl, gamertag, t) ==
    MapSet(rl, gamertag, IF gamertag \in DOMAIN rl THEN rl[gamertag] ELSE <<>>)

\* Mutant: the check itself counts as a payout.
CheckRateLimitAndAdd(rl, gamertag, t) ==
    MapSet(rl, gamertag,
           Append(FilterAbove(IF gamertag \in DOMAIN rl THEN rl[gamertag] ELSE <<>>,
                              t - RATE_WINDOW_MS), t))

\* checkRateLimit: the Map after it (the key created, the window pruned).
CheckRateLimit(rl, gamertag, t) ==
    LET cur == IF gamertag \in DOMAIN rl THEN rl[gamertag] ELSE <<>>
    IN  MapSet(rl, gamertag, FilterAbove(cur, t - RATE_WINDOW_MS))

\* Mutant: the limit lets one more payout through.
RateLimitedAbove(count) == count > RATE_LIMIT

\* currentCount >= 10
RateLimited(count) == count >= RATE_LIMIT

\* addRateLimit
AddRateLimit(rl, gamertag, t) ==
    LET cur == IF gamertag \in DOMAIN rl THEN rl[gamertag] ELSE <<>>
    IN  MapSet(rl, gamertag, Append(cur, t))

\* Mutant: the balance is not checked.
InsufficientBalanceNever(balance, totalCost) == FALSE

\* Mutant: a balance equal to the total cost is refused.
InsufficientBalanceInclusive(balance, totalCost) == balance <= totalCost

\* Mutant: the check only asks for a positive balance.
InsufficientBalancePositiveOnly(balance, totalCost) == balance <= 0

\* balance < totalCost
InsufficientBalance(balance, totalCost) == balance < totalCost

\* projectBalances.set(projectId, balance - totalCost)
Deduct(bal, projectId, balance, totalCost) == MapSet(bal, projectId, balance - totalCost)

\* Mutants: the rollback is left out; the rollback ignores the flag.
RollbackNever(bal, fi, projectId, balance) == bal
RollbackAlways(bal, fi, projectId, balance) == MapSet(bal, projectId, balance)

\* if (failureInjection.rollbackOnTimeout) projectBalances.set(projectId, balance)
Rollback(bal, fi, projectId, balance) ==
    IF fi.rollbackOnTimeout THEN MapSet(bal, projectId, balance) ELSE bal

\* failureInjection.enabled && Math.random() < failureInjection.timeoutRate
Intercepted(fi, draw) == fi.enabled /\ draw < fi.timeoutRate

\* generateId(): a fresh id; a request generates at most one, so its number serves.
GenerateId(r) == r

\* Mutant: expiresIn is ignored.
NewPayoutDefaultExpiry(r, q, fee, totalCost, t) ==
    [id |-> GenerateId(r), internalId |-> q.internalId, gamertag |-> q.gamertag,
     amount |-> q.amount, fee |-> fee, totalCost |-> totalCost,
     projectId |-> q.projectId, idempotencyKey |-> q.idempotencyKey,
     description |-> q.description, callbackUrl |-> q.callbackUrl,
     status |-> PAYOUT_STATUS.COMPLETED, expiresIn |-> DEFAULT_EXPIRY_SECONDS,
     expiresAt |-> t + DEFAULT_EXPIRY_SECONDS * 1000, createdAt |-> t, updatedAt |-> 0]

\* The payout object of lines 253-268.
NewPayout(r, q, fee, totalCost, t) ==
    LET expirySeconds == IF q.expiresIn # 0 THEN q.expiresIn ELSE DEFAULT_EXPIRY_SECONDS
    IN  [id |-> GenerateId(r), internalId |-> q.internalId, gamertag |-> q.gamertag,
         amount |-> q.amount, fee |-> fee, totalCost |-> totalCost,
         projectId |-> q.projectId, idempotencyKey |-> q.idempotencyKey,
         description |-> q.description, callbackUrl |-> q.callbackUrl,
         status |-> PAYOUT_STATUS.COMPLETED, expiresIn |-> expirySeconds,
         expiresAt |-> t + expirySeconds * 1000, createdAt |-> t, updatedAt |-> 0]

\* Mutant: the callback is logged twice.
SendCallbackTwice(log, url, payoutId, t) ==
    Append(Append(log, [url |-> url, payout |-> payoutId, sentAt |-> t]),
           [url |-> url, payout |-> payoutId, sentAt |-> t])

\* sendCallback: the entry holds the payout object itself, not a copy.
SendCallback(log, url, payoutId, t) ==
    Append(log, [url |-> url, payout |-> payoutId, sentAt |-> t])

(***************************************************************************)
(* Responses: { success, message, data } with the HTTP status.             *)
(***************************************************************************)
ErrorResponse(status, error) ==
    [status |-> status, error |-> error, data |-> [error |-> error]]

RateLimitResponse ==
    [status |-> 429, error |-> "RATE_LIMIT_EXCEEDED",
     data |-> [error |-> "RATE_LIMIT_EXCEEDED", retryAfter |-> RETRY_AFTER]]

InsufficientResponse(amount, fee, totalCost, balance) ==
    [status |-> 402, error |-> "INSUFFICIENT_BALANCE",
     data |-> [error |-> "INSUFFICIENT_BALANCE", requiredAmount |-> amount, fee |-> fee,
               totalCost |-> totalCost, currentBalance |-> balance]]

TimeoutResponse(totalCost, fi) ==
    [status |-> 504, error |-> "GATEWAY_TIMEOUT",
     data |-> [error |-> "GATEWAY_TIMEOUT", chargedAmount |-> totalCost,
               balanceRolledBack |-> fi.rollbackOnTimeout]]

\* 200 (duplicate) and 201 (created): data is the payout as it is when sent.
PayoutResponse(status, payout) == [status |-> status, error |-> "", data |-> payout]

\* The responses of the other handlers, with their message.
Answer(status, message, data) == [status |-> status, message |-> message, data |-> data]

NoAnswer == Answer(0, "", [none |-> TRUE])
PayoutNotFound == Answer(404, "Payout not found", [error |-> "PAYOUT_NOT_FOUND"])

\* Mutant: the answer is sent but the handler does not return.
ReplyAndGoOn(r, response) ==
    /\ pc' = pc
    /\ res' = [res EXCEPT ![r] = response]

Reply(r, response) ==
    /\ pc' = [pc EXCEPT ![r] = "done"]
    /\ res' = [res EXCEPT ![r] = response]

(***************************************************************************)
(* POST /api/v1/payouts.                                                   *)
(***************************************************************************)
\* The request is received and the handler waits in simulateDelay() (line 154).
\* Requests take the slots in order.
Arrive(r, q) ==
    /\ pc[r] = "idle"
    /\ \A k \in Requests : k < r => pc[k] # "idle"
    /\ pc' = [pc EXCEPT ![r] = "delay"]
    /\ req' = [req EXCEPT ![r] = q]
    /\ UNCHANGED <<payouts, rateLimits, projectBalances, callbackLog, failureInjection,
                   now, loc, res, funded, nFund, wasReset, last>>

\* Lines 156-311 up to the await of line 276: the checks, the deduction and either
\* the interception or the commit.  draw is the value of Math.random().
Process(r, draw) ==
    /\ pc[r] = "delay"
    /\ LET q == req[r]
           existing == FindExisting(payouts, q)
           checked == CheckRateLimit(rateLimits, q.gamertag, now)
           balance == GetOrZero(projectBalances, q.projectId)
           fee == Fee(q.amount)
           totalCost == q.amount + fee
           payout == NewPayout(r, q, fee, totalCost, now)
       IN  IF MissingFields(q) THEN
               /\ Reply(r, ErrorResponse(400, "VALIDATION_ERROR"))
               /\ UNCHANGED <<payouts, rateLimits, projectBalances, callbackLog, loc>>
           ELSE IF AmountOutOfRange(q) THEN
               /\ Reply(r, ErrorResponse(400, "INVALID_AMOUNT"))
               /\ UNCHANGED <<payouts, rateLimits, projectBalances, callbackLog, loc>>
           ELSE IF DescriptionTooLong(q) THEN
               /\ Reply(r, ErrorResponse(400, "DESCRIPTION_TOO_LONG"))
               /\ UNCHANGED <<payouts, rateLimits, projectBalances, callbackLog, loc>>
           ELSE IF InvalidCallbackUrl(q) THEN
               /\ Reply(r, ErrorResponse(400, "INVALID_CALLBACK_URL"))
               /\ UNCHANGED <<payouts, rateLimits, projectBalances, callbackLog, loc>>
           ELSE IF existing # 0 THEN
               /\ Reply(r, PayoutResponse(200, payouts[existing]))
               /\ UNCHANGED <<payouts, rateLimits, projectBalances, callbackLog, loc>>
           ELSE IF RateLimited(Len(checked[q.gamertag])) THEN
               /\ rateLimits' = checked
               /\ Reply(r, RateLimitResponse)
               /\ UNCHANGED <<payouts, projectBalances, callbackLog, loc>>
           ELSE IF InsufficientBalance(balance, totalCost) THEN
               /\ rateLimits' = checked
               /\ Reply(r, InsufficientResponse(q.amount, fee, totalCost, balance))
               /\ UNCHANGED <<payouts, projectBalances, callbackLog, loc>>
           ELSE IF Intercepted(failureInjection, draw) THEN
               /\ rateLimits' = checked
               /\ projectBalances' = Deduct(projectBalances, q.projectId, balance, totalCost)
               /\ loc' = [loc EXCEPT ![r] = [balance |-> balance, totalCost |-> totalCost]]
               /\ pc' = [pc EXCEPT ![r] = "timeout"]
               /\ UNCHANGED <<payouts, callbackLog, res>>
           ELSE
               /\ projectBalances' = Deduct(projectBalances, q.projectId, balance, totalCost)
               /\ payouts' = Append(payouts, payout)
               /\ rateLimits' = AddRateLimit(checked, q.gamertag, now)
               /\ callbackLog' = IF q.callbackUrl # <<>>
                                 THEN SendCallback(callbackLog, q.callbackUrl, payout.id, now)
                                 ELSE callbackLog
               /\ Reply(r, PayoutResponse(201, payout))
               /\ UNCHANGED loc
    /\ UNCHANGED <<failureInjection, now, req, funded, nFund, wasReset, last>>

\* Lines 278-292: the 2000 ms timer fired; roll back if configured, answer 504.
Resume(r) ==
    /\ pc[r] = "timeout"
    /\ projectBalances' = Rollback(projectBalances, failureInjection,
                                   req[r].projectId, loc[r].balance)
    /\ Reply(r, TimeoutResponse(loc[r].totalCost, failureInjection))
    /\ loc' = [loc EXCEPT ![r] = NoLocals]
    /\ UNCHANGED <<payouts, rateLimits, callbackLog, failureInjection, now, req,
                   funded, nFund, wasReset, last>>

(***************************************************************************)
(* POST /api/v1/projects/:id/fund (no await: one step).                    *)
(***************************************************************************)
\* !amount || amount < 1
FundRejected(hasAmount, amount) == ~hasAmount \/ amount = 0 \/ amount < 1

\* Mutant: funding overwrites the balance.
AddFundsOverwrite(bal, projectId, amount) == MapSet(bal, projectId, amount)

\* projectBalances.set(id, (projectBalances.get(id) || 0) + amount)
AddFunds(bal, projectId, amount) == MapSet(bal, projectId, GetOrZero(bal, projectId) + amount)

FundProject(projectId, hasAmount, amount) ==
    /\ nFund < MaxFund
    /\ IF FundRejected(hasAmount, amount)
       THEN /\ last' = Answer(400, "Amount must be positive", [error |-> "INVALID_AMOUNT"])
            /\ UNCHANGED <<projectBalances, funded, nFund>>
       ELSE /\ projectBalances' = AddFunds(projectBalances, projectId, amount)
            /\ last' = Answer(200, "Funds added successfully",
                              [projectId |-> projectId,
                               previousBalance |-> GetOrZero(projectBalances, projectId),
                               addedAmount |-> amount,
                               newBalance |-> AddFunds(projectBalances, projectId,
                                                       amount)[projectId]])
            /\ funded' = [funded EXCEPT ![projectId] = @ + amount]
            /\ nFund' = nFund + 1
    /\ UNCHANGED <<payouts, rateLimits, callbackLog, failureInjection, now,
                   pc, req, loc, res, wasReset>>

(***************************************************************************)
(* DELETE /api/v1/test/reset.                                              *)
(***************************************************************************)
\* Mutant: no project is seeded.
SeededBalancesNone == [p \in {} |-> SEED_BALANCE]

\* projectBalances.set('project_test_001', 100000)
SeededBalances == [p \in {SEED_PROJECT} |-> SEED_BALANCE]
EmptyMap == [x \in {} |-> 0]

\* Mutant: the reset also puts the failure injection back to its defaults.
ResetWithInjectionOff ==
    /\ payouts' = <<>>
    /\ rateLimits' = EmptyMap
    /\ projectBalances' = SeededBalances
    /\ callbackLog' = <<>>
    /\ failureInjection' = [enabled |-> FALSE, timeoutRate |-> DEFAULT_TIMEOUT_RATE,
                            rollbackOnTimeout |-> TRUE]
    /\ funded' = [p \in Projects |-> 0]
    /\ wasReset' = TRUE
    /\ last' = Answer(200, "All data reset", [empty |-> TRUE])
    /\ UNCHANGED <<now, pc, req, loc, res, nFund>>

Reset ==
    /\ payouts' = <<>>
    /\ rateLimits' = EmptyMap
    /\ projectBalances' = SeededBalances
    /\ callbackLog' = <<>>
    /\ funded' = [p \in Projects |-> 0]
    /\ wasReset' = TRUE
    /\ last' = Answer(200, "All data reset", [empty |-> TRUE])
    /\ UNCHANGED <<failureInjection, now, pc, req, loc, res, nFund>>

(***************************************************************************)
(* POST /api/v1/test/failure-injection.                                    *)
(* A body field is [has |-> typeof matches, value |-> the value].          *)
(***************************************************************************)
\* Mutant: the rate is only capped from above.
ClampRateUpperOnly(rate) == Min(100, rate)

\* Math.max(0, Math.min(1, timeoutRate)), in hundredths
ClampRate(rate) == Max(0, Min(100, rate))

Configured(fi, c) ==
    [enabled |-> IF c.enabled.has THEN c.enabled.value ELSE fi.enabled,
     timeoutRate |-> IF c.timeoutRate.has THEN ClampRate(c.timeoutRate.value)
                     ELSE fi.timeoutRate,
     rollbackOnTimeout |-> IF c.rollbackOnTimeout.has THEN c.rollbackOnTimeout.value
                           ELSE fi.rollbackOnTimeout]

ConfigureFailureInjection(c) ==
    /\ failureInjection' = Configured(failureInjection, c)
    /\ last' = Answer(200, "Failure injection settings updated",
                      Configured(failureInjection, c))
    /\ UNCHANGED <<payouts, rateLimits, projectBalances, callbackLog, now,
                   pc, req, loc, res, funded, nFund, wasReset>>

(***************************************************************************)
(* Date.now(): the clock moves on to a later instant.                      *)
(***************************************************************************)
Tick(t) ==
    /\ t > now
    /\ now' = t
    /\ UNCHANGED <<payouts, rateLimits, projectBalances, callbackLog, failureInjection,
                   pc, req, loc, res, funded, nFund, wasReset, last>>

(***************************************************************************)
(* The initial state: the module's top-level code (lines 54-86).           *)
(***************************************************************************)
InitSlots(n) ==
    /\ payouts = <<>>
    /\ rateLimits = EmptyMap
    /\ projectBalances = SeededBalances
    /\ callbackLog = <<>>
    /\ failureInjection = [enabled |-> FALSE, timeoutRate |-> DEFAULT_TIMEOUT_RATE,
                           rollbackOnTimeout |-> TRUE]
    /\ now = 0
    /\ pc = [r \in 1..n |-> "idle"]
    /\ req = [r \in 1..n |-> NoRequest]
    /\ loc = [r \in 1..n |-> NoLocals]
    /\ res = [r \in 1..n |-> NoResponse]
    /\ funded = [p \in Projects |-> 0]
    /\ nFund = 0
    /\ wasReset = FALSE
    /\ last = NoAnswer

Init == InitSlots(MaxReq)

\* The same with the request slots that fill a recipient's rate window.
InitRate == InitSlots(MaxRateReq)

(***************************************************************************)
(* The ledger under concurrent requests: valid payout requests of two      *)
(* projects, fundings, resets and failure injection.                       *)
(***************************************************************************)
Body(gamertag, hasAmount, amount, projectId, key) ==
    [gamertag |-> gamertag, hasAmount |-> hasAmount, amount |-> amount,
     projectId |-> projectId, idempotencyKey |-> key, callbackUrl |-> <<>>,
     expiresIn |-> 0, description |-> 0, internalId |-> ""]

LedgerBodies ==
    {Body("player_001", TRUE, 1000, SEED_PROJECT, "key_1"),
     Body("player_001", TRUE, 1000, SEED_PROJECT, ""),
     Body("player_001", TRUE, MAX_AMOUNT, SEED_PROJECT, ""),
     Body("player_001", TRUE, 1000, OTHER_PROJECT, "key_1")}

FundAmounts == {0, 5000}

Absent == [has |-> FALSE, value |-> FALSE]
Given(v) == [has |-> TRUE, value |-> v]

\* A field of the JSON body as it is sent: its JavaScript type and its value.
Sent(type, value) == [type |-> type, value |-> value]

\* typeof field === wanted: what the handler makes of a sent field.
Typed(field, wanted) == [has |-> field.type = wanted, value |-> field.value]

\* const { enabled, timeoutRate, rollbackOnTimeout } = req.body
ConfigBody(enabled, timeoutRate, rollbackOnTimeout) ==
    [enabled |-> Typed(enabled, "boolean"), timeoutRate |-> Typed(timeoutRate, "number"),
     rollbackOnTimeout |-> Typed(rollbackOnTimeout, "boolean")]

\* The load test's setting (half of the requests time out, with rollback) and
\* the same without rollback.
LedgerConfigs ==
    {[enabled |-> Given(TRUE), timeoutRate |-> Given(50), rollbackOnTimeout |-> Given(TRUE)],
     [enabled |-> Given(TRUE), timeoutRate |-> Given(50), rollbackOnTimeout |-> Given(FALSE)]}

Draws == {0, 99}

(***************************************************************************)
(* PATCH /api/v1/payouts/:id/status (no await: one step).                  *)
(***************************************************************************)
\* payouts.get(id): the index of the payout with this id, 0 if none.
IndexOfId(ps, id) ==
    LET hits == {i \in 1..Len(ps) : ps[i].id = id}
    IN  IF hits = {} THEN 0 ELSE CHOOSE i \in hits : TRUE

\* Mutant: every status is accepted.
InvalidStatusNever(status) == FALSE

\* !VALID_STATUSES.includes(status)
InvalidStatus(status) == status \notin VALID_STATUSES

\* Mutant: only a pending payout changes its status.
WithStatusFromPending(ps, i, status, t) ==
    IF ps[i].status = PAYOUT_STATUS.PENDING
    THEN [ps EXCEPT ![i].status = status, ![i].updatedAt = t]
    ELSE ps

\* payout.status = status; payout.updatedAt = new Date().toISOString()
WithStatus(ps, i, status, t) == [ps EXCEPT ![i].status = status, ![i].updatedAt = t]

UpdateStatus(id, status) ==
    /\ LET i == IndexOfId(payouts, id)
       IN  IF i = 0 THEN
               /\ last' = PayoutNotFound
               /\ UNCHANGED <<payouts, callbackLog>>
           ELSE IF InvalidStatus(status) THEN
               /\ last' = Answer(400, "Invalid status",
                                 [error |-> "INVALID_STATUS", validStatuses |-> VALID_STATUSES])
               /\ UNCHANGED <<payouts, callbackLog>>
           ELSE
               /\ payouts' = WithStatus(payouts, i, status, now)
               /\ callbackLog' = IF payouts[i].callbackUrl # <<>>
                                 THEN SendCallback(callbackLog, payouts[i].callbackUrl, id, now)
                                 ELSE callbackLog
               /\ last' = Answer(200, "Payout status updated",
                                 WithStatus(payouts, i, status, now)[i])
    /\ UNCHANGED <<rateLimits, projectBalances, failureInjection, now,
                   pc, req, loc, res, funded, nFund, wasReset>>

StatusInputs == {PAYOUT_STATUS.PENDING, "refunded"}

(***************************************************************************)
(* GET /api/v1/payouts/:id (the code after its one await, simulateDelay on *)
(* entry: one step).                                                       *)
(***************************************************************************)
\* isExpired: new Date(payout.expiresAt) < new Date(); expiresAt is always set.
IsExpired(payout, t) == payout.expiresAt < t

\* Mutant: every payout past its expiry is expired by a read, whatever its status.
ExpiresOnReadAnyStatus(payout, t) == IsExpired(payout, t)

\* isExpired(payout) && payout.status === 'pending'
ExpiresOnRead(payout, t) == IsExpired(payout, t) /\ payout.status = PAYOUT_STATUS.PENDING

GetPayout(id) ==
    /\ LET i == IndexOfId(payouts, id)
           read == IF i # 0 /\ ExpiresOnRead(payouts[i], now)
                   THEN WithStatus(payouts, i, PAYOUT_STATUS.EXPIRED, now)
                   ELSE payouts
       IN  IF i = 0 THEN
               /\ last' = PayoutNotFound
               /\ UNCHANGED <<payouts, callbackLog>>
           ELSE
               /\ payouts' = read
               /\ callbackLog' = IF ExpiresOnRead(payouts[i], now) /\ payouts[i].callbackUrl # <<>>
                                 THEN SendCallback(callbackLog, payouts[i].callbackUrl, id, now)
                                 ELSE callbackLog
               /\ last' = Answer(200, "Payout retrieved", read[i])
    /\ UNCHANGED <<rateLimits, projectBalances, failureInjection, now,
                   pc, req, loc, res, funded, nFund, wasReset>>

(***************************************************************************)
(* GET /api/v1/payouts/by-internal-id/:internalId (one await on entry).    *)
(***************************************************************************)
\* Array.from(payouts.values()).find(p => p.internalId === internalId): the index
\* of the first such payout, 0 if none.
FindByInternalId(ps, internalId) ==
    LET hits == {i \in 1..Len(ps) : ps[i].internalId = internalId}
    IN  IF hits = {} THEN 0 ELSE CHOOSE i \in hits : \A j \in hits : i <= j

GetPayoutByInternalId(internalId) ==
    /\ LET i == FindByInternalId(payouts, internalId)
       IN  last' = IF i = 0 THEN PayoutNotFound
                   ELSE Answer(200, "Payout retrieved", payouts[i])
    /\ UNCHANGED <<payouts, rateLimits, projectBalances, callbackLog, failureInjection, now,
                   pc, req, loc, res, funded, nFund, wasReset>>

(***************************************************************************)
(* POST /api/v1/test/expire/:id (no await: one step).                      *)
(***************************************************************************)
\* Mutant: only the status is set, the expiry stays.
ForcedExpiredKeepExpiry(ps, i, t) ==
    [ps EXCEPT ![i].status = PAYOUT_STATUS.EXPIRED, ![i].updatedAt = t]

\* Mutant: the forced expiry lies one second ahead.
ForcedExpiredAhead(ps, i, t) ==
    [ps EXCEPT ![i].expiresAt = t + 1000, ![i].status = PAYOUT_STATUS.EXPIRED,
               ![i].updatedAt = t]

\* payout.expiresAt = new Date(Date.now() - 1000); payout.status = 'expired';
\* payout.updatedAt = new Date()
ForcedExpired(ps, i, t) ==
    [ps EXCEPT ![i].expiresAt = t - 1000, ![i].status = PAYOUT_STATUS.EXPIRED,
               ![i].updatedAt = t]

ExpirePayout(id) ==
    /\ LET i == IndexOfId(payouts, id)
       IN  IF i = 0 THEN
               /\ last' = PayoutNotFound
               /\ UNCHANGED <<payouts, callbackLog>>
           ELSE
               /\ payouts' = ForcedExpired(payouts, i, now)
               /\ callbackLog' = IF payouts[i].callbackUrl # <<>>
                                 THEN SendCallback(callbackLog, payouts[i].callbackUrl, id, now)
                                 ELSE callbackLog
               /\ last' = Answer(200, "Payout expired", ForcedExpired(payouts, i, now)[i])
    /\ UNCHANGED <<rateLimits, projectBalances, failureInjection, now,
                   pc, req, loc, res, funded, nFund, wasReset>>

(***************************************************************************)
(* GET /api/v1/projects/:id/balance (one await on entry).                  *)
(***************************************************************************)
\* projectBalances.get(id) === undefined
ProjectUnknown(bal, projectId) == projectId \notin DOMAIN bal

GetBalance(projectId) ==
    /\ last' = IF ProjectUnknown(projectBalances, projectId)
               THEN Answer(404, "Project not found", [error |-> "PROJECT_NOT_FOUND"])
               ELSE Answer(200, "Balance retrieved",
                           [projectId |-> projectId, balance |-> projectBalances[projectId],
                            currency |-> "sats"])
    /\ UNCHANGED <<payouts, rateLimits, projectBalances, callbackLog, failureInjection, now,
                   pc, req, loc, res, funded, nFund, wasReset>>

(***************************************************************************)
(* GET /api/v1/test/callbacks (no await: one step).                        *)
(***************************************************************************)
\* res.json of callbackLog: every entry is serialised as the answer is sent, and
\* the data of its payload is the payout object that sendCallback was given.
Shown(log, ps) ==
    [k \in 1..Len(log) |->
        [url |-> log[k].url,
         payload |-> [event |-> "payout.status_changed", timestamp |-> log[k].sentAt,
                      data |-> ps[IndexOfId(ps, log[k].payout)]],
         sentAt |-> log[k].sentAt]]

GetCallbacks ==
    /\ last' = Answer(200, "Callback log retrieved",
                      [callbacks |-> Shown(callbackLog, payouts), count |-> Len(callbackLog)])
    /\ UNCHANGED <<payouts, rateLimits, projectBalances, callbackLog, failureInjection, now,
                   pc, req, loc, res, funded, nFund, wasReset>>

(***************************************************************************)
(* Payout requests with missing, out-of-range and malformed fields.        *)
(***************************************************************************)
HttpUrl == <<"h", "t", "t", "p", ":", "/", "/", "x">>
HttpsUrl == <<"h", "t", "t", "p", "s", ":", "/", "/", "x">>
FtpUrl == <<"f", "t", "p", ":", "/", "/", "x">>
SchemeOnlyUrl == <<"h", "t", "t", "p", ":", "/", "/">>

ValidationBodies ==
    {[gamertag |-> g, hasAmount |-> a[1], amount |-> a[2], projectId |-> p,
      idempotencyKey |-> "", callbackUrl |-> u, expiresIn |-> 0,
      description |-> d, internalId |-> ""] :
        g \in {"", "player_001"},
        a \in {<<FALSE, 0>>, <<TRUE, 0>>, <<TRUE, -5>>, <<TRUE, MIN_AMOUNT>>,
               <<TRUE, MAX_AMOUNT + 1>>},
        p \in {"", SEED_PROJECT},
        d \in {0, MAX_DESCRIPTION_LENGTH + 1},
        u \in {<<>>, HttpsUrl, FtpUrl}}

\* Every request that passes the checks times out.
AlwaysTimeout ==
    [enabled |-> Given(TRUE), timeoutRate |-> Given(250), rollbackOnTimeout |-> Absent]

\* Requests of both projects that all carry one idempotency key.
DuplicateBodies ==
    {Body("player_001", TRUE, a, p, "key_1") : a \in {1000, 2000}, p \in Projects}

(***************************************************************************)
(* Spec: concurrent payout requests, fundings and failure injection.       *)
(* SpecFull: the same with resets and status updates.                      *)
(* SpecValidation: requests with bad fields, with and without injection.   *)
(* SpecDuplicates: concurrent requests with one key, no failure injection. *)
(* SpecRate, SpecOrder, SpecCommit, SpecTimeout, SpecFee, SpecLifecycle,   *)
(* SpecProjects, SpecAdmin, SpecConfig, SpecCallbacks, SpecReplay,         *)
(* SpecRetry, SpecIsolation, SpecFair: described where their requests are  *)
(* defined, below.                                                         *)
(***************************************************************************)
Next ==
    \/ \E r \in LedgerRequests, q \in LedgerBodies : Arrive(r, q)
    \/ \E r \in Requests, d \in Draws : Process(r, d)
    \/ \E r \in Requests : Resume(r)
    \/ \E p \in Projects, a \in FundAmounts : FundProject(p, TRUE, a)
    \/ \E c \in LedgerConfigs : ConfigureFailureInjection(c)

Spec == Init /\ [][Next]_vars

\* SpecFull's requests: a small and a too-large payout of the seeded project, a
\* keyed payout of the other project.
FullBodies ==
    {Body("player_001", TRUE, 1000, SEED_PROJECT, ""),
     Body("player_001", TRUE, MAX_AMOUNT, SEED_PROJECT, ""),
     Body("player_001", TRUE, 1000, OTHER_PROJECT, "key_1")}

NextFull ==
    \/ \E r \in LedgerRequests, q \in FullBodies : Arrive(r, q)
    \/ \E r \in Requests, d \in Draws : Process(r, d)
    \/ \E r \in Requests : Resume(r)
    \/ \E p \in Projects, a \in FundAmounts : FundProject(p, TRUE, a)
    \/ \E c \in LedgerConfigs : ConfigureFailureInjection(c)
    \/ Reset
    \/ \E id \in Requests, s \in StatusInputs : UpdateStatus(id, s)

SpecFull == Init /\ [][NextFull]_vars

NextValidation ==
    \/ \E r \in LedgerRequests, q \in ValidationBodies : Arrive(r, q)
    \/ \E r \in Requests, d \in Draws : Process(r, d)
    \/ \E r \in Requests : Resume(r)
    \/ ConfigureFailureInjection(AlwaysTimeout)

SpecValidation == Init /\ [][NextValidation]_vars

NextDuplicates ==
    \/ \E r \in Requests, q \in DuplicateBodies : Arrive(r, q)
    \/ \E r \in Requests, d \in Draws : Process(r, d)
    \/ \E a \in FundAmounts : FundProject(OTHER_PROJECT, TRUE, a)

SpecDuplicates == Init /\ [][NextDuplicates]_vars

\* SpecRate: payouts of 100 to one recipient, the first MaxOtherReq of them from
\* either project, the rest from the seeded one, while the clock moves from 0 to
\* just before and just after the end of the hour; a request arrives when all but
\* the MaxInFlight - 1 requests before it are answered.
Instants == {RATE_WINDOW_MS - 1, RATE_WINDOW_MS + 1}

RateBodies == {Body("player_rate_limit", TRUE, 100, p, "") : p \in Projects}

ArriveRate(r, q) ==
    /\ \A k \in Requests : k + MaxInFlight <= r => pc[k] = "done"
    /\ q.projectId = OTHER_PROJECT => r <= MaxOtherReq
    /\ Arrive(r, q)

NextRate ==
    \/ \E r \in Requests, q \in RateBodies : ArriveRate(r, q)
    \/ \E r \in Requests, d \in Draws : Process(r, d)
    \/ \E a \in FundAmounts : FundProject(OTHER_PROJECT, TRUE, a)
    \/ \E t \in Instants : Tick(t)

SpecRate == InitRate /\ [][NextRate]_vars

\* SpecOrder: one client that awaits each answer before its next request.  It
\* fills the recipient's rate window with payouts of 100 (the first with or
\* without an idempotency key) and sends, at any point, MaxProbes requests whose
\* fields pass or fail each check in every combination; failure injection that
\* intercepts every request is switched on once, with or without rollback, and
\* the hour may end while such a request waits.
FillBodies == {Body("player_rate_limit", TRUE, 100, SEED_PROJECT, k) : k \in {"", "key_1"}}

OrderBodies ==
    {[gamertag |-> "player_rate_limit", hasAmount |-> TRUE, amount |-> a,
      projectId |-> SEED_PROJECT, idempotencyKey |-> k, callbackUrl |-> u, expiresIn |-> 0,
      description |-> d, internalId |-> ""] :
        a \in {0, 100, MAX_AMOUNT, MAX_AMOUNT + 1},
        k \in {"", "key_1"},
        d \in {0, MAX_DESCRIPTION_LENGTH + 1},
        u \in {<<>>, FtpUrl}}
    \cup
    {[gamertag |-> "", hasAmount |-> TRUE, amount |-> a,
      projectId |-> SEED_PROJECT, idempotencyKey |-> "", callbackUrl |-> <<>>, expiresIn |-> 0,
      description |-> d, internalId |-> ""] :
        a \in {100, MAX_AMOUNT + 1},
        d \in {0, MAX_DESCRIPTION_LENGTH + 1}}
    \cup
    {[gamertag |-> "player_rate_limit", hasAmount |-> h, amount |-> 100, projectId |-> p,
      idempotencyKey |-> "", callbackUrl |-> u, expiresIn |-> 60,
      description |-> MAX_DESCRIPTION_LENGTH, internalId |-> "internal_1"] :
        h \in BOOLEAN, p \in {"", SEED_PROJECT, OTHER_PROJECT},
        u \in {HttpsUrl, SchemeOnlyUrl}}

OrderConfigs ==
    {[enabled |-> Given(TRUE), timeoutRate |-> Given(250), rollbackOnTimeout |-> Given(b)] :
        b \in BOOLEAN}

\* The requests made so far that are not payouts of 100 to the recipient.
Probes == {k \in Requests : pc[k] # "idle" /\ req[k] \notin FillBodies}

ArriveOrder(r, bodies) ==
    /\ pc[r] = "idle"
    /\ \A k \in Requests : k < r => pc[k] = "done"
    /\ \E q \in bodies :
          /\ (q \in FillBodies /\ q.idempotencyKey # "") => r = 1
          /\ q \notin FillBodies => Cardinality(Probes) < MaxProbes
          /\ Arrive(r, q)

\* The hour ends while a request with arbitrary fields waits in simulateDelay().
TickOrder ==
    /\ \E k \in Probes : pc[k] = "delay"
    /\ Tick(RATE_WINDOW_MS + 1)

NextOrder ==
    \/ \E r \in Requests : ArriveOrder(r, FillBodies \cup OrderBodies)
    \/ \E r \in Requests, d \in Draws : Process(r, d)
    \/ \E r \in Requests : Resume(r)
    \/ ~failureInjection.enabled /\ \E c \in OrderConfigs : ConfigureFailureInjection(c)
    \/ TickOrder

SpecOrder == InitRate /\ [][NextOrder]_vars

\* SpecCommit: valid payouts to two recipients from two projects, with and
\* without callback URL and expiresIn, fundings and the clock.
CommitBodies ==
    {[gamertag |-> g, hasAmount |-> TRUE, amount |-> 1000, projectId |-> p,
      idempotencyKey |-> "", callbackUrl |-> x[1], expiresIn |-> x[2],
      description |-> 0, internalId |-> ""] :
        g \in {"player_001", "player_002"}, p \in Projects,
        x \in {<<<<>>, 0>>, <<HttpsUrl, 600>>}}

NextCommit ==
    \/ \E r \in LedgerRequests, q \in CommitBodies : Arrive(r, q)
    \/ \E r \in Requests, d \in Draws : Process(r, d)
    \/ \E p \in Projects, a \in FundAmounts : FundProject(p, TRUE, a)
    \/ \E t \in Instants : Tick(t)

SpecCommit == Init /\ [][NextCommit]_vars

\* SpecTimeout: concurrent payout requests with callback URL, the same or no
\* idempotency key and internalId, while half of the requests are intercepted.
TimeoutBodies ==
    {[gamertag |-> "player_001", hasAmount |-> TRUE, amount |-> 1000,
      projectId |-> SEED_PROJECT, idempotencyKey |-> k[1], callbackUrl |-> u,
      expiresIn |-> 0, description |-> 0, internalId |-> k[2]] :
        k \in {<<"key_1", "internal_1">>, <<"", "">>}, u \in {<<>>, HttpsUrl}}

NextTimeout ==
    \/ \E r \in LedgerRequests, q \in TimeoutBodies : Arrive(r, q)
    \/ \E r \in Requests, d \in Draws : Process(r, d)
    \/ \E r \in Requests : Resume(r)
    \/ \E c \in LedgerConfigs : ConfigureFailureInjection(c)

SpecTimeout == Init /\ [][NextTimeout]_vars

\* SpecFee: one payout request of every amount of the valid range, against the
\* seeded balance or the seeded balance plus one funding.
FeeBodies == {Body("player_001", TRUE, a, SEED_PROJECT, "") : a \in MIN_AMOUNT..MAX_AMOUNT}

NextFee ==
    \/ pc[1] = "idle" /\ \E q \in FeeBodies : Arrive(1, q)
    \/ \E r \in Requests, d \in Draws : Process(r, d)
    \/ \E a \in FundAmounts : FundProject(SEED_PROJECT, TRUE, a)

SpecFee == Init /\ [][NextFee]_vars

\* SpecLifecycle: payouts with and without callback URL, internalId and
\* expiresIn are created, read by id and by internalId, set to every status and
\* to a status outside the enumeration, and force-expired, while the clock
\* passes the expiry of the short-lived and of the default payouts.  A request
\* that would log a callback is only made while the log is shorter than
\* MaxCallbacks.
LifecycleBodies ==
    {[gamertag |-> "player_001", hasAmount |-> TRUE, amount |-> 1000,
      projectId |-> SEED_PROJECT, idempotencyKey |-> "", callbackUrl |-> x[1],
      expiresIn |-> x[2], description |-> 0, internalId |-> x[3]] :
        x \in {<<<<>>, 0, "">>, <<HttpsUrl, 60, "internal_1">>}}

ExpiryInstants == {60 * 1000 + 1, DEFAULT_EXPIRY_SECONDS * 1000 + 1}

LifecycleStatuses == VALID_STATUSES \cup {"refunded"}

InternalIds == {"internal_1", "internal_2"}

LogHasRoom == Len(callbackLog) < MaxCallbacks

NextLifecycle ==
    \/ \E r \in LedgerRequests, q \in LifecycleBodies : LogHasRoom /\ Arrive(r, q)
    \/ \E r \in Requests, d \in Draws : Process(r, d)
    \/ \E id \in Requests, st \in LifecycleStatuses : LogHasRoom /\ UpdateStatus(id, st)
    \/ \E id \in Requests : LogHasRoom /\ GetPayout(id)
    \/ \E internalId \in InternalIds : GetPayoutByInternalId(internalId)
    \/ \E id \in Requests : LogHasRoom /\ ExpirePayout(id)
    \/ \E t \in ExpiryInstants : Tick(t)

SpecLifecycle == Init /\ [][NextLifecycle]_vars

\* SpecProjects: payouts of the seeded and of the other project, with and
\* without idempotency key, internalId and callback URL, intercepted or not;
\* fundings with a missing, zero, negative and positive amount; balance reads
\* and resets at any moment.
ProjectBodies ==
    {[gamertag |-> "player_001", hasAmount |-> TRUE, amount |-> 1000,
      projectId |-> p, idempotencyKey |-> x[1], callbackUrl |-> x[2],
      expiresIn |-> 0, description |-> 0, internalId |-> x[3]] :
        p \in Projects, x \in {<<"", <<>>, "">>, <<"key_1", HttpsUrl, "internal_1">>}}

FundInputs == {<<FALSE, 0>>, <<TRUE, 0>>, <<TRUE, -5>>, <<TRUE, 5000>>}

NextProjects ==
    \/ \E r \in LedgerRequests, q \in ProjectBodies : Arrive(r, q)
    \/ \E r \in Requests, d \in Draws : Process(r, d)
    \/ \E r \in Requests : Resume(r)
    \/ \E c \in LedgerConfigs : ConfigureFailureInjection(c)
    \/ \E p \in Projects, a \in FundInputs : FundProject(p, a[1], a[2])
    \/ \E p \in Projects : GetBalance(p)
    \/ Reset

SpecProjects == Init /\ [][NextProjects]_vars

\* SpecAdmin: every handler that changes state.  Payouts of the seeded project
\* are created or intercepted, read after their expiry, set to pending or to an
\* unknown status and force-expired, the project is funded, and the server is
\* reset and its failure injection configured at any moment.
AdminBodies == {Body("player_001", TRUE, 1000, SEED_PROJECT, "")}

NextAdmin ==
    \/ \E r \in LedgerRequests, q \in AdminBodies : Arrive(r, q)
    \/ \E r \in Requests, d \in Draws : Process(r, d)
    \/ \E r \in Requests : Resume(r)
    \/ \E c \in LedgerConfigs : ConfigureFailureInjection(c)
    \/ \E a \in FundAmounts : FundProject(SEED_PROJECT, TRUE, a)
    \/ \E id \in Requests, st \in StatusInputs : UpdateStatus(id, st)
    \/ \E id \in Requests : GetPayout(id)
    \/ \E id \in Requests : ExpirePayout(id)
    \/ Tick(DEFAULT_EXPIRY_SECONDS * 1000 + 1)
    \/ Reset

SpecAdmin == Init /\ [][NextAdmin]_vars

\* SpecConfig: configuration requests whose three fields are each omitted,
\* given with the right type or given with a wrong type, with rates below,
\* inside and above the range, while one payout request of either amount reads
\* the configuration.
ConfigBodies == {Body("player_001", TRUE, a, SEED_PROJECT, "") : a \in {1000, 2000}}

SentFlags ==
    <<Sent("undefined", ""), Sent("boolean", TRUE), Sent("boolean", FALSE),
      Sent("string", "true")>>

SentRates ==
    <<Sent("undefined", ""), Sent("number", -50), Sent("number", 50), Sent("number", 250),
      Sent("string", "0.5")>>

\* The request bodies made of these fields.
SentConfig(i, j, k) == ConfigBody(SentFlags[i], SentRates[j], SentFlags[k])

NextConfig ==
    \/ \E i \in DOMAIN SentFlags, j \in DOMAIN SentRates, k \in DOMAIN SentFlags :
          ConfigureFailureInjection(SentConfig(i, j, k))
    \/ pc[1] = "idle" /\ \E q \in ConfigBodies : Arrive(1, q)
    \/ \E r \in Requests, d \in Draws : Process(r, d)
    \/ \E r \in Requests : Resume(r)

SpecConfig == Init /\ [][NextConfig]_vars

\* SpecCallbacks: payouts with and without callback URL are created, set to
\* every status, force-expired and read before and after the expiry of the
\* short-lived one and looked up by internalId; the callback log is read, and
\* everything is reset.  A
\* request that would log a callback is only made while the log is shorter
\* than MaxLogged.
NextCallbacks ==
    \/ \E r \in LedgerRequests, q \in LifecycleBodies :
            Len(callbackLog) < MaxLogged /\ Arrive(r, q)
    \/ \E r \in Requests, d \in Draws : Process(r, d)
    \/ \E id \in LedgerRequests, st \in LifecycleStatuses :
            Len(callbackLog) < MaxLogged /\ UpdateStatus(id, st)
    \/ \E id \in LedgerRequests : Len(callbackLog) < MaxLogged /\ GetPayout(id)
    \/ \E id \in LedgerRequests : Len(callbackLog) < MaxLogged /\ ExpirePayout(id)
    \/ GetPayoutByInternalId("internal_1")
    \/ GetCallbacks
    \/ Tick(60 * 1000 + 1)
    \/ Reset

SpecCallbacks == Init /\ [][NextCallbacks]_vars

\* SpecReplay: one client sends its requests one after the other.  The first is
\* a payout of 1000 with an idempotency key; then come payouts of 100 to the same
\* recipient, which fill the recipient's window, at most one payout to another
\* recipient that takes nearly all of the balance, and at most MaxReplays
\* requests with the key of the first, for the same or another recipient and
\* amount.
FirstBody == Body("player_rate_limit", TRUE, 1000, SEED_PROJECT, "key_1")

WindowBodies == {Body("player_rate_limit", TRUE, 100, SEED_PROJECT, "")}

DrainBodies == {Body("player_001", TRUE, 96000, SEED_PROJECT, "")}

ReplayBodies ==
    {Body(g, TRUE, a, SEED_PROJECT, "key_1") :
        g \in {"player_rate_limit", "player_001"}, a \in {1000, 2000}}

RequestsWith(bodies) == {k \in Requests : k > 1 /\ pc[k] # "idle" /\ req[k] \in bodies}

ArriveReplay(r) ==
    /\ pc[r] = "idle"
    /\ \A k \in Requests : k < r => pc[k] = "done"
    /\ IF r = 1 THEN Arrive(r, FirstBody)
       ELSE \/ \E q \in WindowBodies : Arrive(r, q)
            \/ RequestsWith(DrainBodies) = {} /\ \E q \in DrainBodies : Arrive(r, q)
            \/ Cardinality(RequestsWith(ReplayBodies)) < MaxReplays
                  /\ \E q \in ReplayBodies : Arrive(r, q)

NextReplay ==
    \/ \E r \in Requests : ArriveReplay(r)
    \/ \E r \in Requests, d \in Draws : Process(r, d)

SpecReplay == InitRate /\ [][NextReplay]_vars

\* SpecRetry: one client sends a payout request of 1000 or 2000 with an
\* idempotency key and sends the same request again after each answer, while
\* failure injection that intercepts half of the requests is switched on, with
\* or without rollback.
RetryBodies == {Body("player_001", TRUE, a, SEED_PROJECT, "key_1") : a \in {1000, 2000}}

ArriveRetry(r) ==
    /\ \A k \in Requests : k < r => pc[k] = "done"
    /\ \E q \in RetryBodies : (r > 1 => q = req[1]) /\ Arrive(r, q)

NextRetry ==
    \/ \E r \in Requests : ArriveRetry(r)
    \/ \E r \in Requests, d \in Draws : Process(r, d)
    \/ \E r \in Requests : Resume(r)
    \/ \E c \in LedgerConfigs : ConfigureFailureInjection(c)

SpecRetry == Init /\ [][NextRetry]_vars

\* SpecIsolation: payout requests of 60000 from the seeded project, of which
\* the balance covers one, arrive together while failure injection intercepts
\* half of the requests, with or without rollback; the balance is read at any
\* moment.
NextIsolation ==
    \/ \E r \in LedgerRequests : Arrive(r, Body("player_001", TRUE, 60000, SEED_PROJECT, ""))
    \/ \E r \in Requests, d \in Draws : Process(r, d)
    \/ \E r \in Requests : Resume(r)
    \/ \E c \in LedgerConfigs : ConfigureFailureInjection(c)
    \/ GetBalance(SEED_PROJECT)

SpecIsolation == Init /\ [][NextIsolation]_vars

\* SpecFair: concurrent payout requests, valid with an idempotency key, above
\* the balance and without recipient, while failure injection is switched on
\* and everything is reset at any moment.  The timer of simulateDelay() and the
\* 2000 ms timer of the gateway timeout of every request fire: a handler that
\* can continue eventually does.
FairBodies ==
    {Body("player_001", TRUE, 1000, SEED_PROJECT, "key_1"),
     Body("player_001", TRUE, MAX_AMOUNT, SEED_PROJECT, ""),
     Body("", TRUE, 1000, SEED_PROJECT, "")}

NextFair ==
    \/ \E r \in Requests, q \in FairBodies : Arrive(r, q)
    \/ \E r \in Requests, d \in Draws : Process(r, d)
    \/ \E r \in Requests : Resume(r)
    \/ \E c \in LedgerConfigs : ConfigureFailureInjection(c)
    \/ Reset

SpecFair ==
    /\ Init /\ [][NextFair]_vars
    /\ \A r \in 1..MaxReq :
          /\ WF_vars(\E d \in Draws : Process(r, d))
          /\ WF_vars(Resume(r))

(***************************************************************************)
(* Vocabulary of the properties.                                           *)
(***************************************************************************)
\* The request was answered with this HTTP status.
Answered(r, status) == pc[r] = "done" /\ res[r].status = status

\* The step answers request r straight from simulateDelay (no timeout wait).
Handles(r) == pc[r] = "delay" /\ pc'[r] = "done"

\* The request passes the four field checks.
FieldsValid(q) ==
    /\ q.gamertag # "" /\ q.projectId # "" /\ q.hasAmount
    /\ q.amount >= MIN_AMOUNT /\ q.amount <= MAX_AMOUNT
    /\ q.description <= MAX_DESCRIPTION_LENGTH
    /\ q.callbackUrl = <<>>

\* No request has been intercepted by the failure injection.
NoTimeouts == \A r \in Requests : pc[r] # "timeout" /\ res[r].status # 504

\* No request is between its arrival and its answer.
NoneInFlight == \A r \in Requests : pc[r] \in {"idle", "done"}

Seeded(p) == IF p = SEED_PROJECT THEN SEED_BALANCE ELSE 0

\* The sum of totalCost over the payout records of project p.
Spent(p) ==
    LET RECURSIVE Sum(_)
        Sum(i) == IF i = 0 THEN 0
                  ELSE Sum(i - 1) + (IF payouts[i].projectId = p THEN payouts[i].totalCost ELSE 0)
    IN  Sum(Len(payouts))

Conserved == \A p \in Projects :
    GetOrZero(projectBalances, p) = Seeded(p) + funded[p] - Spent(p)

\* The indices of the payout records that carry key k.
WithKey(k) == {i \in 1..Len(payouts) : payouts[i].idempotencyKey = k}

Keys == {"key_1"}

(***************************************************************************)
(* C1.  In every reachable state, under any interleaving of payout         *)
(* requests (timing out with or without rollback), fundings, status        *)
(* updates and resets, every project's balance is >= 0.                    *)
(***************************************************************************)
C1_BalanceNeverNegative ==
    \A p \in DOMAIN projectBalances : projectBalances[p] >= 0

\* After a reset: one request was refused for its balance, another timed out.
C1_Witness ==
    /\ wasReset /\ nFund > 0
    /\ \E r \in Requests : Answered(r, 402)
    /\ \E r \in Requests : Answered(r, 504)

(***************************************************************************)
(* C2.  As long as no request was intercepted by the failure injection and *)
(* no reset ran, every project's balance is its seeded amount plus the     *)
(* accepted fundings minus the totalCost of its payout records.            *)
(***************************************************************************)
C2_Conservation == (NoTimeouts /\ ~wasReset) => Conserved

\* Two payouts and a funding, no timeout.
C2_Witness == NoTimeouts /\ ~wasReset /\ Len(payouts) >= 2 /\ nFund > 0

(***************************************************************************)
(* C3.  With rollback on timeout, once no request is in flight the balance *)
(* of every project is seeded + funded - totalCost of its payout records:  *)
(* a rollback gives back only the request's own amount + fee.              *)
(***************************************************************************)
C3_RollbackLosesNothing ==
    (/\ NoneInFlight /\ ~wasReset
     /\ \A r \in Requests : Answered(r, 504) => res[r].data.balanceRolledBack)
        => Conserved

(***************************************************************************)
(* C4.  A request that is intercepted keeps the balance it read before the *)
(* deduction, and when it gives up with rollbackOnTimeout = true the       *)
(* project's balance is that pre-attempt balance again and the 504 answer  *)
(* says balanceRolledBack = true.                                          *)
(***************************************************************************)
C4_RollbackRestores ==
    [][\A r \in Requests :
        /\ (pc[r] = "delay" /\ pc'[r] = "timeout") =>
              loc'[r].balance = GetOrZero(projectBalances, req[r].projectId)
        /\ (pc[r] = "timeout" /\ pc'[r] = "done" /\ failureInjection.rollbackOnTimeout) =>
              /\ GetOrZero(projectBalances', req[r].projectId) = loc[r].balance
              /\ res'[r].status = 504 /\ res'[r].error = "GATEWAY_TIMEOUT"
              /\ res'[r].data.balanceRolledBack = TRUE]_vars

\* A request timed out and was rolled back; nothing else ran, the seed is intact.
C4_Witness ==
    \E r \in Requests :
        /\ Answered(r, 504) /\ res[r].data.balanceRolledBack
        /\ \A k \in Requests : k # r => pc[k] = "idle"
        /\ nFund = 0
        /\ projectBalances[SEED_PROJECT] = SEED_BALANCE

(***************************************************************************)
(* C5.  The interception deducts amount + fee and records nothing; giving  *)
(* up with rollbackOnTimeout = false leaves balances and payout records as *)
(* they are and answers 504 with balanceRolledBack = false and             *)
(* chargedAmount = amount + fee; no payout record ever carries the id of a *)
(* request that timed out.                                                 *)
(***************************************************************************)
C5_ChargedNotPaid ==
    [][\A r \in Requests :
        LET total == req[r].amount + Fee(req[r].amount)
        IN  /\ (pc[r] = "delay" /\ pc'[r] = "timeout") =>
                  /\ projectBalances'[req[r].projectId] =
                        GetOrZero(projectBalances, req[r].projectId) - total
                  /\ payouts' = payouts
            /\ (pc[r] = "timeout" /\ pc'[r] = "done" /\ ~failureInjection.rollbackOnTimeout) =>
                  /\ projectBalances' = projectBalances
                  /\ payouts' = payouts
                  /\ res'[r].status = 504 /\ res'[r].error = "GATEWAY_TIMEOUT"
                  /\ res'[r].data.balanceRolledBack = FALSE
                  /\ res'[r].data.chargedAmount = total
            /\ (pc'[r] = "done" /\ res'[r].status = 504) =>
                  IndexOfId(payouts', GenerateId(r)) = 0]_vars

\* A request timed out without rollback; nothing else ran: the seed is short of
\* amount + fee and there is no payout record.
C5_Witness ==
    \E r \in Requests :
        /\ Answered(r, 504) /\ ~res[r].data.balanceRolledBack
        /\ \A k \in Requests : k # r => pc[k] = "idle"
        /\ nFund = 0
        /\ projectBalances[SEED_PROJECT] = SEED_BALANCE - res[r].data.chargedAmount
        /\ payouts = <<>>

C7_OneEffectPerProjectKey ==
    \A p \in Projects, k \in Keys :
        LET S == {r \in Requests : pc[r] # "idle" /\ req[r].projectId = p
                                   /\ req[r].idempotencyKey = k}
        IN  (/\ NoTimeouts /\ ~wasReset
             /\ Cardinality(S) >= 2
             /\ \A r \in S :
                   /\ FieldsValid(req[r])
                   /\ Answered(r, 200) \/ Answered(r, 201)
                   /\ GetOrZero(projectBalances, p) >= req[r].amount + Fee(req[r].amount)) =>
                /\ Cardinality({r \in S : Answered(r, 201)}) = 1
                /\ \A r1, r2 \in S : res[r1].data.id = res[r2].data.id
                /\ \E i \in WithKey(k) :
                      /\ payouts[i].projectId = p
                      /\ payouts[i].totalCost = payouts[i].amount + Fee(payouts[i].amount)
                      /\ \A r \in S : res[r].data.id = payouts[i].id
                /\ Conserved

C9_KeyScopedPerProject ==
    [][\A r \in Requests :
        LET q == req[r]
            total == q.amount + Fee(q.amount)
            mine == {i \in WithKey(q.idempotencyKey) : payouts[i].projectId = q.projectId}
        IN  (/\ Handles(r) /\ FieldsValid(q) /\ q.idempotencyKey # ""
             /\ WithKey(q.idempotencyKey) # {} /\ mine = {}
             /\ GetOrZero(projectBalances, q.projectId) >= total
             /\ Len(CheckRateLimit(rateLimits, q.gamertag, now)[q.gamertag]) < RATE_LIMIT) =>
                /\ res'[r].status = 201
                /\ res'[r].data.projectId = q.projectId
                /\ projectBalances'[q.projectId] = projectBalances[q.projectId] - total]_vars

(***************************************************************************)
(* C10.  A request with recipient and project present is answered          *)
(* INVALID_AMOUNT when its amount is 0, and VALIDATION_ERROR only when its *)
(* amount is absent.                                                       *)
(***************************************************************************)
C10_ZeroIsInvalidAmount ==
    \A r \in Requests :
        (pc[r] = "done" /\ req[r].gamertag # "" /\ req[r].projectId # "") =>
            /\ (req[r].hasAmount /\ req[r].amount = 0) => res[r].error = "INVALID_AMOUNT"
            /\ res[r].error = "VALIDATION_ERROR" => ~req[r].hasAmount

(***************************************************************************)
(* Vocabulary of the properties on single requests.                        *)
(***************************************************************************)
\* The step runs the checks of request r (lines 156-274).
Runs(r) == pc[r] = "delay" /\ pc'[r] # "delay"

\* No payout record carries the request's idempotency key.
KeyUnused(q) == q.idempotencyKey = "" \/ WithKey(q.idempotencyKey) = {}

\* The number of rate-limit timestamps of a recipient inside the window that
\* ends at t (the entries checkRateLimit keeps).
InWindow(rl, gamertag, t) ==
    IF gamertag \in DOMAIN rl
    THEN Cardinality({i \in 1..Len(rl[gamertag]) : rl[gamertag][i] > t - RATE_WINDOW_MS})
    ELSE 0

(***************************************************************************)
(* C11.  A request with valid fields, an unused idempotency key and a      *)
(* recipient below the rate limit that names a project with no balance     *)
(* entry (never seeded, never funded) is answered 404 PROJECT_NOT_FOUND.   *)
(***************************************************************************)
C11_UnknownProjectNotFound ==
    [][\A r \in Requests :
        (/\ Runs(r) /\ FieldsValid(req[r]) /\ KeyUnused(req[r])
         /\ InWindow(rateLimits, req[r].gamertag, now) < RATE_LIMIT
         /\ req[r].projectId \notin DOMAIN projectBalances) =>
            /\ pc'[r] = "done"
            /\ res'[r].status = 404
            /\ res'[r].error = "PROJECT_NOT_FOUND"]_vars

(***************************************************************************)
(* C12.  For every amount in 1..100000 the fee in the answer (created or   *)
(* insufficient balance) and in the payout record is the least integer     *)
(* that is at least 2% of the amount, that is (2*amount + 99) div 100, so  *)
(* at least 1; totalCost is amount + fee and is what the balance was       *)
(* charged; 1 -> 1, 150 -> 3, 1000 -> 20, 100000 -> 2000.                  *)
(***************************************************************************)
\* fee is the integer ceiling of amount * 2 / 100.
IsCeilingOfTwoPercent(amount, fee) ==
    100 * fee >= 2 * amount /\ 100 * (fee - 1) < 2 * amount

FeeExamples == {<<1, 1>>, <<150, 3>>, <<1000, 20>>, <<100000, 2000>>}

FeeAsClaimed(amount, fee, totalCost) ==
    /\ IsCeilingOfTwoPercent(amount, fee)
    /\ fee = (2 * amount + 99) \div 100
    /\ fee >= 1
    /\ totalCost = amount + fee
    /\ \A e \in FeeExamples : amount = e[1] => fee = e[2]

C12_FeeIsCeiling ==
    /\ \A r \in Requests :
          (Answered(r, 201) \/ Answered(r, 402)) =>
              FeeAsClaimed(req[r].amount, res[r].data.fee, res[r].data.totalCost)
    /\ \A i \in 1..Len(payouts) :
          FeeAsClaimed(payouts[i].amount, payouts[i].fee, payouts[i].totalCost)
    /\ \A p \in Projects :
          GetOrZero(projectBalances, p) = Seeded(p) + funded[p] - Spent(p)

\* The largest amount was paid out of the funded balance with a fee of 2000.
C12_Witness ==
    \E r \in Requests :
        /\ Answered(r, 201) /\ req[r].amount = MAX_AMOUNT
        /\ res[r].data.fee = 2000 /\ Len(payouts) = 1
        /\ projectBalances[SEED_PROJECT] = SEED_BALANCE + 5000 - 102000

(***************************************************************************)
(* C13.  At every instant and for every recipient, at most 10 payout       *)
(* records of that recipient (of whatever project) were created inside the *)
(* hour that ends at that instant, however the requests interleave.        *)
(***************************************************************************)
Gamertags == {payouts[i].gamertag : i \in 1..Len(payouts)}

\* The payout records of recipient g created inside the hour that ends now.
RecentPayouts(g) ==
    {i \in 1..Len(payouts) :
        payouts[i].gamertag = g /\ payouts[i].createdAt > now - RATE_WINDOW_MS}

NotOlderThanWindow(g) ==
    {i \in 1..Len(payouts) :
        payouts[i].gamertag = g /\ now - payouts[i].createdAt <= RATE_WINDOW_MS}

WellFormedUrls == {HttpUrl, HttpsUrl}

\* The place in the order of the first check the request fails, 8 if none.
FirstFailing(q) ==
    IF q.gamertag = "" \/ ~q.hasAmount \/ q.projectId = "" THEN 1
    ELSE IF q.amount < 1 \/ q.amount > 100000 THEN 2
    ELSE IF q.description > 144 THEN 3
    ELSE IF q.callbackUrl # <<>> /\ q.callbackUrl \notin WellFormedUrls THEN 4
    ELSE IF q.idempotencyKey # "" /\ \E i \in WithKey(q.idempotencyKey) :
                                        payouts[i].projectId = q.projectId THEN 5
    ELSE IF Cardinality(RecentPayouts(q.gamertag)) >= 10 THEN 6
    ELSE IF \/ q.projectId \notin DOMAIN projectBalances
            \/ projectBalances[q.projectId] < q.amount + (2 * q.amount + 99) \div 100 THEN 7
    ELSE 8

\* The place in the order of the check an answer comes from, 8 for a payout.
OutcomeOf(response) ==
    CASE response.error = "VALIDATION_ERROR" -> 1
      [] response.error = "INVALID_AMOUNT" -> 2
      [] response.error = "DESCRIPTION_TOO_LONG" -> 3
      [] response.error = "INVALID_CALLBACK_URL" -> 4
      [] response.status = 200 -> 5
      [] response.error = "RATE_LIMIT_EXCEEDED" -> 6
      [] response.error \in {"PROJECT_NOT_FOUND", "INSUFFICIENT_BALANCE"} -> 7
      [] OTHER -> 8

\* The request carries the key of payouts of other projects only.
KeyOfOtherProject(q) ==
    /\ q.idempotencyKey # "" /\ WithKey(q.idempotencyKey) # {}
    /\ \A i \in WithKey(q.idempotencyKey) : payouts[i].projectId # q.projectId

C15_FirstFailingCheckDecides ==
    [][\A r \in Requests :
        (Runs(r) /\ ~KeyOfOtherProject(req[r])) =>
            LET outcome == IF pc'[r] = "timeout" THEN 8 ELSE OutcomeOf(res'[r])
            IN  /\ (outcome = 8 /\ pc'[r] = "done") => res'[r].status = 201
                /\ IF req[r].hasAmount /\ req[r].amount = 0 /\ FirstFailing(req[r]) = 2
                   THEN outcome \in {1, 2}
                   ELSE outcome = FirstFailing(req[r])]_vars

\* A request beyond the project's balance for a recipient at the limit was
\* answered RATE_LIMIT_EXCEEDED.
C15_Witness ==
    \E r \in Requests :
        /\ Answered(r, 429) /\ Len(payouts) = RATE_LIMIT
        /\ req[r].amount + Fee(req[r].amount) > projectBalances[req[r].projectId]
        /\ req[r].idempotencyKey = ""

(***************************************************************************)
(* C16.  A request answered VALIDATION_ERROR, INVALID_AMOUNT,              *)
(* DESCRIPTION_TOO_LONG, INVALID_CALLBACK_URL, RATE_LIMIT_EXCEEDED or      *)
(* INSUFFICIENT_BALANCE leaves the project balances, the payout records    *)
(* and the callback log as they are, and every recipient has as many       *)
(* rate-limit timestamps inside the window as before.                      *)
(***************************************************************************)
RejectionErrors ==
    {"VALIDATION_ERROR", "INVALID_AMOUNT", "DESCRIPTION_TOO_LONG", "INVALID_CALLBACK_URL",
     "RATE_LIMIT_EXCEEDED", "INSUFFICIENT_BALANCE"}

C16_RejectionCommitsNothing ==
    [][\A r \in Requests :
        (Runs(r) /\ pc'[r] = "done" /\ res'[r].error \in RejectionErrors) =>
            /\ UNCHANGED <<projectBalances, payouts, callbackLog>>
            /\ \A g \in DOMAIN rateLimits \cup DOMAIN rateLimits' :
                  InWindow(rateLimits', g, now) = InWindow(rateLimits, g, now)]_vars

\* After the hour a request was refused for its balance: the check dropped the
\* recipient's old timestamps, the payouts and the balance are as they were.
C16_Witness ==
    \E r \in Requests :
        /\ Answered(r, 402) /\ now > RATE_WINDOW_MS
        /\ Len(payouts) = 3 /\ rateLimits[req[r].gamertag] = <<>>
        /\ projectBalances[SEED_PROJECT] = SEED_BALANCE - 3 * 102
        /\ \A k \in Requests : pc[k] # "timeout" /\ res[k].status # 504

(***************************************************************************)
(* C17.  A request answered 201 changes exactly this: its project's        *)
(* balance goes down by amount + fee; one payout record is added, with     *)
(* status completed, created now and expiring expiresIn (or 300) seconds   *)
(* later, and is the answer's data; the recipient has one more timestamp   *)
(* in the window, the instant now; the callback log gets one entry for     *)
(* this payout if and only if the request has a callback URL.  The other   *)
(* balances, payout records, recipients' timestamps and log entries stay.  *)
(***************************************************************************)
Last(s) == s[Len(s)]

\* t is s with exactly one element appended.
Extends(t, s) == Len(t) = Len(s) + 1 /\ SubSeq(t, 1, Len(s)) = s

C17_CreatedCommitsExactly ==
    [][\A r \in Requests :
        (Runs(r) /\ pc'[r] = "done" /\ res'[r].status = 201) =>
            LET q == req[r]
                fee == (2 * q.amount + 99) \div 100
                new == Last(payouts')
            IN  /\ DOMAIN projectBalances' = DOMAIN projectBalances
                /\ q.projectId \in DOMAIN projectBalances
                /\ \A x \in DOMAIN projectBalances :
                      projectBalances'[x] = IF x = q.projectId
                                            THEN projectBalances[x] - (q.amount + fee)
                                            ELSE projectBalances[x]
                /\ Extends(payouts', payouts)
                /\ res'[r].data = new
                /\ new.status = "completed"
                /\ new.gamertag = q.gamertag /\ new.projectId = q.projectId
                /\ new.amount = q.amount /\ new.fee = fee /\ new.totalCost = q.amount + fee
                /\ new.createdAt = now
                /\ new.expiresAt = now + 1000 * (IF q.expiresIn # 0 THEN q.expiresIn ELSE 300)
                /\ \A i \in 1..Len(payouts) : payouts[i].id # new.id
                /\ InWindow(rateLimits', q.gamertag, now) =
                       InWindow(rateLimits, q.gamertag, now) + 1
                /\ Last(rateLimits'[q.gamertag]) = now
                /\ \A g \in (DOMAIN rateLimits \cup DOMAIN rateLimits') \ {q.gamertag} :
                      g \in DOMAIN rateLimits /\ g \in DOMAIN rateLimits'
                      /\ rateLimits'[g] = rateLimits[g]
                /\ IF q.callbackUrl # <<>>
                   THEN /\ Extends(callbackLog', callbackLog)
                        /\ Last(callbackLog').url = q.callbackUrl
                        /\ Last(callbackLog').payout = new.id
                   ELSE callbackLog' = callbackLog]_vars

\* Payouts of both projects to two recipients at two instants, one with a
\* callback URL and an expiresIn of its own, the other with neither.
C17_Witness ==
    \E r1, r2 \in Requests :
        /\ Answered(r1, 201) /\ Answered(r2, 201)
        /\ req[r1].projectId # req[r2].projectId /\ req[r1].gamertag # req[r2].gamertag
        /\ req[r1].callbackUrl # <<>> /\ req[r2].callbackUrl = <<>>
        /\ Len(callbackLog) = 1 /\ callbackLog[1].payout = res[r1].data.id
        /\ res[r1].data.createdAt = RATE_WINDOW_MS - 1
        /\ res[r1].data.expiresAt = res[r1].data.createdAt + 600000
        /\ res[r2].data.createdAt = RATE_WINDOW_MS + 1
        /\ res[r2].data.expiresAt = res[r2].data.createdAt + 300000

(***************************************************************************)
(* C18.  A request with valid fields and an unused key, for a recipient    *)
(* below the rate limit and a project that has a balance entry, is         *)
(* answered 402 INSUFFICIENT_BALANCE exactly when balance < amount + fee;  *)
(* the 402 answer reports amount, fee, total and the balance and changes   *)
(* no balance; otherwise (no failure injection) it is answered 201 and     *)
(* the balance goes down by amount + fee, to 0 when they are equal.        *)
(***************************************************************************)
C18_InsufficientIffBelowTotal ==
    [][\A r \in Requests :
        LET q == req[r]
            fee == (2 * q.amount + 99) \div 100
            total == q.amount + fee
        IN  (/\ Runs(r) /\ FieldsValid(q) /\ KeyUnused(q)
             /\ InWindow(rateLimits, q.gamertag, now) < RATE_LIMIT
             /\ q.projectId \in DOMAIN projectBalances
             /\ ~failureInjection.enabled) =>
                LET balance == projectBalances[q.projectId]
                IN  /\ pc'[r] = "done"
                    /\ res'[r].status \in {201, 402}
                    /\ res'[r].status = 402 <=> balance < total
                    /\ res'[r].status = 402 =>
                          /\ res'[r].error = "INSUFFICIENT_BALANCE"
                          /\ res'[r].data.requiredAmount = q.amount
                          /\ res'[r].data.fee = fee
                          /\ res'[r].data.totalCost = total
                          /\ res'[r].data.currentBalance = balance
                          /\ projectBalances' = projectBalances
                    /\ res'[r].status = 201 =>
                          projectBalances'[q.projectId] = balance - total]_vars

\* The seeded 100000 paid out exactly: amount 98039 and its fee of 1961.
C18_Witness ==
    \E r \in Requests :
        /\ Answered(r, 201) /\ req[r].amount = 98039 /\ res[r].data.fee = 1961
        /\ nFund = 0 /\ projectBalances[SEED_PROJECT] = 0

(***************************************************************************)
(* C19.  A request is intercepted by the failure injection only when it    *)
(* fails none of the checks; with failure injection enabled at rate 1 a    *)
(* request that fails a check gets that check's 400, 200, 429 or 402       *)
(* answer in the same step and a request that fails none is intercepted;   *)
(* 504 is only ever the answer to an intercepted request.                  *)
(***************************************************************************)
C19_InterceptionAfterChecks ==
    [][\A r \in Requests :
        /\ (Runs(r) /\ pc'[r] = "timeout") => FirstFailing(req[r]) = 8
        /\ (Runs(r) /\ failureInjection.enabled /\ failureInjection.timeoutRate = 100
                    /\ ~KeyOfOtherProject(req[r])) =>
              IF FirstFailing(req[r]) = 8
              THEN pc'[r] = "timeout"
              ELSE /\ pc'[r] = "done"
                   /\ res'[r].status \in {400, 200, 429, 402}
                   /\ res'[r].error # "GATEWAY_TIMEOUT"
        /\ (pc'[r] = "done" /\ res'[r].status = 504 /\ pc[r] # "done") => pc[r] = "timeout"
        /\ (pc[r] = "timeout" /\ pc'[r] # "timeout") =>
              pc'[r] = "done" /\ res'[r].status = 504]_vars

\* With every request intercepted, a payout timed out and the next request,
\* beyond the project's balance, was answered 402.
C19_Witness ==
    /\ failureInjection.enabled /\ failureInjection.timeoutRate = 100
    /\ \E k, r \in Requests :
          /\ k < r /\ Answered(k, 504)
          /\ Answered(r, 402) /\ req[r].amount = MAX_AMOUNT

(***************************************************************************)
(* C20.  As claimed: once a request is answered 504 (rolled back or not),  *)
(* no payout record has its id, its internalId or its idempotency key, and *)
(* its steps add no rate-limit timestamp and no callback-log entry.        *)
(***************************************************************************)
\* The steps of request r that end in 504 leave payouts and callback log as they
\* are and every recipient's number of timestamps in the window.
RecordsNothing(r) ==
    ((Runs(r) /\ pc'[r] = "timeout") \/ (pc[r] = "timeout" /\ pc'[r] = "done")) =>
        /\ UNCHANGED <<payouts, callbackLog>>
        /\ \A g \in DOMAIN rateLimits \cup DOMAIN rateLimits' :
              InWindow(rateLimits', g, now) = InWindow(rateLimits, g, now)

C20_TimedOutNeverRecorded ==
    [][\A r \in Requests :
        /\ RecordsNothing(r)
        /\ (pc'[r] = "done" /\ res'[r].status = 504) =>
              \A i \in 1..Len(payouts') :
                  /\ payouts'[i].id # GenerateId(r)
                  /\ req[r].internalId # "" => payouts'[i].internalId # req[r].internalId
                  /\ req[r].idempotencyKey # "" =>
                        payouts'[i].idempotencyKey # req[r].idempotencyKey]_vars

(***************************************************************************)
(* C20, amended.  A request answered 504 (rolled back or not) records      *)
(* nothing: its steps leave payout records and callback log as they are    *)
(* and add no rate-limit timestamp, no payout record or log entry ever has *)
(* its id, and a payout record with its internalId or idempotency key is   *)
(* the payout of another request, one that was answered 201.               *)
(***************************************************************************)
C20_TimedOutRecordsNothing ==
    [][\A r \in Requests :
        /\ RecordsNothing(r)
        /\ (pc[r] = "timeout" /\ pc'[r] = "done") => res'[r].status = 504
        /\ (pc'[r] = "done" /\ res'[r].status = 504) =>
              /\ \A i \in 1..Len(payouts') : payouts'[i].id # GenerateId(r)
              /\ \A i \in 1..Len(callbackLog') : callbackLog'[i].payout # GenerateId(r)
              /\ \A i \in 1..Len(payouts') :
                    (\/ req[r].internalId # "" /\ payouts'[i].internalId = req[r].internalId
                     \/ req[r].idempotencyKey # ""
                           /\ payouts'[i].idempotencyKey = req[r].idempotencyKey) =>
                        \E k \in Requests \ {r} :
                            /\ pc'[k] = "done" /\ res'[k].status = 201
                            /\ res'[k].data.id = payouts'[i].id]_vars

\* Requests with key, internalId and callback URL timed out, with and without
\* rollback; nothing is recorded.
C20_Witness ==
    /\ \E r1, r2 \in Requests :
          /\ Answered(r1, 504) /\ res[r1].data.balanceRolledBack
          /\ Answered(r2, 504) /\ ~res[r2].data.balanceRolledBack
          /\ req[r1].callbackUrl # <<>> /\ req[r1].idempotencyKey # ""
          /\ req[r1].internalId # "" /\ req[r2] = req[r1]
    /\ payouts = <<>> /\ callbackLog = <<>>
    /\ rateLimits["player_001"] = <<>>

(***************************************************************************)
(* Vocabulary of the properties about the other handlers.                  *)
(***************************************************************************)
\* The payout records that exist before and after the step.
Kept == {i \in 1..Len(payouts) : i <= Len(payouts')}

\* The step leaves every payout record but that of id as it is.
OthersUntouched(id) ==
    /\ Len(payouts') = Len(payouts)
    /\ \A j \in 1..Len(payouts) : payouts[j].id # id => payouts'[j] = payouts[j]

\* The latest answer is a payout in this status.
AnsweredPayout(message, status) ==
    last.status = 200 /\ last.message = message /\ last.data.status = status

(***************************************************************************)
(* C21.  GetPayout(id) on a pending payout whose expiry is in the past     *)
(* sets its status to expired and returns it as expired; on a payout that  *)
(* is completed or error, or pending and not past its expiry, it leaves    *)
(* the payout as it is; and a step that changes the status of a payout is  *)
(* a step of GetPayout, UpdateStatus or ExpirePayout, never of the clock.  *)
(***************************************************************************)
C21_ExpirationOnRead ==
    [][/\ \A id \in Requests : GetPayout(id) =>
            LET i == IndexOfId(payouts, id)
            IN  i # 0 =>
                  /\ last'.status = 200 /\ last'.data = payouts'[i]
                  /\ OthersUntouched(id)
                  /\ IF payouts[i].status = PAYOUT_STATUS.PENDING /\ payouts[i].expiresAt < now
                     THEN payouts'[i].status = PAYOUT_STATUS.EXPIRED
                     ELSE payouts'[i] = payouts[i]
       /\ (\E i \in Kept : payouts'[i].status # payouts[i].status) =>
            \/ \E id \in Requests : GetPayout(id) \/ ExpirePayout(id)
            \/ \E id \in Requests, st \in VALID_STATUSES : UpdateStatus(id, st)
       /\ now' # now => payouts' = payouts]_vars

\* A pending payout was read after its expiry and answered as expired, while a
\* completed payout created with it is past its expiry and still completed.
C21_Witness ==
    /\ AnsweredPayout("Payout retrieved", PAYOUT_STATUS.EXPIRED)
    /\ \E i \in 1..Len(payouts) :
          /\ payouts[i].id = last.data.id
          /\ payouts[i].status = PAYOUT_STATUS.EXPIRED
          /\ payouts[i].expiresAt > 0 /\ payouts[i].expiresAt < now
    /\ \E j \in 1..Len(payouts) :
          payouts[j].status = PAYOUT_STATUS.COMPLETED /\ payouts[j].expiresAt < now

(***************************************************************************)
(* C22.  GetPayoutByInternalId on a pending payout whose expiry is in the  *)
(* past sets its status to expired, returns it as expired and logs a       *)
(* callback if the payout has a callback URL, as GetPayout(id) does.       *)
(***************************************************************************)
C22_LookupExpires ==
    [][\A internalId \in InternalIds : GetPayoutByInternalId(internalId) =>
          LET i == FindByInternalId(payouts, internalId)
          IN  (/\ i # 0
               /\ payouts[i].status = PAYOUT_STATUS.PENDING
               /\ payouts[i].expiresAt < now) =>
                 /\ payouts'[i].status = PAYOUT_STATUS.EXPIRED
                 /\ last'.data.status = PAYOUT_STATUS.EXPIRED
                 /\ payouts[i].callbackUrl # <<>> =>
                       callbackLog' = SendCallback(callbackLog, payouts[i].callbackUrl,
                                                   payouts[i].id, now)]_vars

\* The step changes nothing of the ledger: payouts, balances, rate-limit windows,
\* callback log and failure injection.
LedgerUnchanged ==
    UNCHANGED <<payouts, rateLimits, projectBalances, callbackLog, failureInjection>>

(***************************************************************************)
(* C23.  UpdateStatus(id, t) on an existing payout with t one of pending,  *)
(* completed, expired, error succeeds whatever the payout's status is      *)
(* (also when it is t already, and from completed to pending): the status  *)
(* becomes t, and no balance, no other payout and no rate-limit window     *)
(* changes.                                                                *)
(***************************************************************************)
C23_AnyTransitionAllowed ==
    [][\A id \in Requests, st \in VALID_STATUSES : UpdateStatus(id, st) =>
          LET i == IndexOfId(payouts, id)
          IN  i # 0 =>
                /\ last'.status = 200 /\ last'.data = payouts'[i]
                /\ payouts'[i] = [payouts[i] EXCEPT !.status = st, !.updatedAt = now]
                /\ OthersUntouched(id)
                /\ UNCHANGED <<projectBalances, rateLimits>>]_vars

\* A completed payout was set back to pending at a later instant, next to
\* another payout that is still completed.
C23_Witness ==
    /\ AnsweredPayout("Payout status updated", PAYOUT_STATUS.PENDING)
    /\ \E i, j \in 1..Len(payouts) :
          /\ payouts[i].id = last.data.id
          /\ payouts[i].status = PAYOUT_STATUS.PENDING
          /\ payouts[i].updatedAt = now /\ now > payouts[i].createdAt
          /\ j # i /\ payouts[j].status = PAYOUT_STATUS.COMPLETED

(***************************************************************************)
(* C24.  UpdateStatus with an unknown payout id answers 404                *)
(* PAYOUT_NOT_FOUND whatever the status value, and with a status outside   *)
(* the four values on an existing payout it answers 400 INVALID_STATUS     *)
(* with the valid set; in both cases the payout, the callback log and all  *)
(* the rest of the ledger stay as they are.                                *)
(***************************************************************************)
C24_StatusErrorsChangeNothing ==
    [][\A id \in Requests, st \in LifecycleStatuses : UpdateStatus(id, st) =>
          LET i == IndexOfId(payouts, id)
          IN  /\ i = 0 =>
                    /\ last'.status = 404 /\ last'.data.error = "PAYOUT_NOT_FOUND"
                    /\ LedgerUnchanged
              /\ (i # 0 /\ st \notin VALID_STATUSES) =>
                    /\ last'.status = 400 /\ last'.data.error = "INVALID_STATUS"
                    /\ last'.data.validStatuses = {"pending", "completed", "expired", "error"}
                    /\ LedgerUnchanged]_vars

\* A payout with a callback URL was given an unknown status: the only log entry
\* is that of its creation.
C24_Witness ==
    /\ last.status = 400 /\ last.data.error = "INVALID_STATUS"
    /\ \E i \in 1..Len(payouts) :
          payouts[i].callbackUrl # <<>> /\ payouts[i].status = PAYOUT_STATUS.COMPLETED
    /\ Len(callbackLog) = 1

(***************************************************************************)
(* C25.  ExpirePayout(id) on an existing payout, whatever its status,      *)
(* sets the status to expired and the expiry to an instant in the past,    *)
(* and changes no balance (nothing is refunded), no other payout and no    *)
(* rate-limit window; on an unknown id it answers 404 PAYOUT_NOT_FOUND and *)
(* changes nothing.                                                        *)
(***************************************************************************)
C25_ForcedExpiry ==
    [][\A id \in Requests : ExpirePayout(id) =>
          LET i == IndexOfId(payouts, id)
          IN  /\ i # 0 =>
                    /\ last'.status = 200 /\ last'.data = payouts'[i]
                    /\ payouts'[i].status = PAYOUT_STATUS.EXPIRED
                    /\ payouts'[i].expiresAt < now
                    /\ OthersUntouched(id)
                    /\ UNCHANGED <<projectBalances, rateLimits>>
              /\ i = 0 =>
                    /\ last'.status = 404 /\ last'.data.error = "PAYOUT_NOT_FOUND"
                    /\ LedgerUnchanged]_vars

\* A payout was force-expired before its expiry; the project has still paid
\* the amount and the fee of every payout.
C25_Witness ==
    /\ AnsweredPayout("Payout expired", PAYOUT_STATUS.EXPIRED)
    /\ \E i \in 1..Len(payouts) :
          /\ payouts[i].id = last.data.id
          /\ payouts[i].status = PAYOUT_STATUS.EXPIRED
          /\ payouts[i].expiresAt = now - 1000
          /\ now < payouts[i].createdAt + payouts[i].expiresIn * 1000
    /\ projectBalances[SEED_PROJECT] = SEED_BALANCE - Spent(SEED_PROJECT)
    /\ Spent(SEED_PROJECT) > 0

SeededOrFunded(p) == p = SEED_PROJECT \/ funded[p] > 0

(***************************************************************************)
(* C27.  GetBalance(projectId) answers 404 PROJECT_NOT_FOUND exactly when  *)
(* the project was neither seeded nor successfully funded since the last   *)
(* reset, and otherwise the current balance; so a payout request that      *)
(* names an unknown project, whatever its outcome, does not create it.     *)
(***************************************************************************)
C27_NotFoundIffNeverFunded ==
    [][\A p \in Projects : GetBalance(p) =>
          IF SeededOrFunded(p)
          THEN last'.status = 200 /\ last'.data.balance = projectBalances[p]
          ELSE last'.status = 404 /\ last'.data.error = "PROJECT_NOT_FOUND"]_vars

(***************************************************************************)
(* C28.  The failure injection starts with enabled = false, and a step     *)
(* changes enabled, timeoutRate or rollbackOnTimeout only if it is a step  *)
(* of ConfigureFailureInjection: the steps of CreatePayout (its timeout    *)
(* path included), GetPayout, UpdateStatus, FundProject, ExpirePayout and  *)
(* reset leave the three as they are.                                      *)
(***************************************************************************)
C28_OnlyConfigureChangesInjection ==
    /\ failureInjection.enabled = FALSE
    /\ [][/\ failureInjection' # failureInjection =>
               \E c \in LedgerConfigs : ConfigureFailureInjection(c)
          /\ (\/ \E r \in Requests, d \in Draws : Process(r, d)
              \/ \E r \in Requests : Resume(r)
              \/ \E id \in Requests : GetPayout(id) \/ ExpirePayout(id)
              \/ \E id \in Requests, st \in StatusInputs : UpdateStatus(id, st)
              \/ \E a \in FundAmounts : FundProject(SEED_PROJECT, TRUE, a)
              \/ Reset)
                => failureInjection' = failureInjection]_vars

\* The failure injection is still as configured after a timeout, a funding, a
\* reset and the forced expiry of a payout.
C28_Witness ==
    /\ failureInjection = [enabled |-> TRUE, timeoutRate |-> 50, rollbackOnTimeout |-> FALSE]
    /\ wasReset /\ nFund > 0
    /\ \E r \in Requests : Answered(r, 504)
    /\ AnsweredPayout("Payout expired", PAYOUT_STATUS.EXPIRED)

\* The configuration that the request leaves, field by field.
Updated(old, field, type, new) == IF field.type = type THEN new ELSE old

(***************************************************************************)
(* C29.  ConfigureFailureInjection changes each of enabled, timeoutRate    *)
(* and rollbackOnTimeout only if the field is sent with the right type: an *)
(* omitted or wrongly typed field keeps its value; a sent timeoutRate is   *)
(* stored as 0 if it is below 0, as 1 if it is above 1 and as it is        *)
(* otherwise; and the same request applied to the resulting configuration  *)
(* leaves it as it is.  The answer is the resulting configuration.         *)
(***************************************************************************)
C29_PartialIdempotentUpdate ==
    [][\A i \in DOMAIN SentFlags, j \in DOMAIN SentRates, k \in DOMAIN SentFlags :
          ConfigureFailureInjection(SentConfig(i, j, k)) =>
            LET e == SentFlags[i]
                t == SentRates[j]
                b == SentFlags[k]
            IN
            /\ failureInjection'.enabled =
                  Updated(failureInjection.enabled, e, "boolean", e.value)
            /\ failureInjection'.timeoutRate =
                  Updated(failureInjection.timeoutRate, t, "number",
                          IF t.value < 0 THEN 0 ELSE IF t.value > 100 THEN 100 ELSE t.value)
            /\ failureInjection'.rollbackOnTimeout =
                  Updated(failureInjection.rollbackOnTimeout, b, "boolean", b.value)
            /\ failureInjection'.timeoutRate >= 0 /\ failureInjection'.timeoutRate <= 100
            /\ Configured(failureInjection', SentConfig(i, j, k)) = failureInjection'
            /\ last'.status = 200 /\ last'.data = failureInjection']_vars

\* A rate above 1 was stored as 1 while enabled was never switched on, and a
\* payout request was answered under that configuration.
C29_Witness ==
    /\ failureInjection = [enabled |-> FALSE, timeoutRate |-> 100, rollbackOnTimeout |-> FALSE]
    /\ last.message = "Failure injection settings updated" /\ last.data = failureInjection
    /\ \E r \in Requests : Answered(r, 201)

\* A request body that carries just this idempotency key.
Keyed(key) == [NoRequest EXCEPT !.idempotencyKey = key]

(***************************************************************************)
(* C30.  A reset that runs while no payout request is in flight leaves no  *)
(* payout record, so that every id, internalId and idempotency key of an   *)
(* earlier payout is unknown again, no rate-limit timestamp of any         *)
(* recipient, an empty callback log, and exactly one project,              *)
(* project_test_001, with balance 100000.                                  *)
(***************************************************************************)
C30_ResetLeavesSeedOnly ==
    [][(Reset /\ NoneInFlight) =>
          /\ payouts' = <<>>
          /\ \A i \in 1..Len(payouts) :
                /\ IndexOfId(payouts', payouts[i].id) = 0
                /\ FindByInternalId(payouts', payouts[i].internalId) = 0
                /\ FindExisting(payouts', Keyed(payouts[i].idempotencyKey)) = 0
          /\ \A g \in DOMAIN rateLimits' : rateLimits'[g] = <<>>
          /\ callbackLog' = <<>>
          /\ DOMAIN projectBalances' = {"project_test_001"}
          /\ projectBalances'["project_test_001"] = 100000]_vars

\* The reset came after a funding of the other project and a payout with
\* idempotency key, internalId and callback URL, and nothing is in flight.
C30_Witness ==
    /\ last.message = "All data reset" /\ wasReset /\ nFund > 0 /\ NoneInFlight
    /\ \E r \in Requests :
          /\ Answered(r, 201)
          /\ res[r].data.idempotencyKey = "key_1" /\ res[r].data.internalId = "internal_1"
          /\ res[r].data.projectId = OTHER_PROJECT
    /\ payouts = <<>> /\ callbackLog = <<>>
    /\ DOMAIN projectBalances = {SEED_PROJECT}

(***************************************************************************)
(* Vocabulary of the properties about the callback log.                    *)
(***************************************************************************)
\* The step appends exactly one entry, addressed to the payout's callback URL,
\* if the payout has one, and none if it has not.
LogsIfRegistered(payout) ==
    IF payout.callbackUrl # <<>>
    THEN /\ Extends(callbackLog', callbackLog)
         /\ Last(callbackLog').url = payout.callbackUrl
         /\ Last(callbackLog').payout = payout.id
    ELSE callbackLog' = callbackLog

(***************************************************************************)
(* C31.  The creation of a payout, every successful UpdateStatus, every    *)
(* ExpirePayout and the read that turns a pending payout into an expired   *)
(* one each append exactly one callback-log entry addressed to the         *)
(* payout's callback URL if it has one and none if it has not; a read that *)
(* changes no status, by id or by internalId, and a rejected UpdateStatus  *)
(* append nothing.                                                         *)
(***************************************************************************)
C31_OneCallbackPerTransition ==
    [][/\ \A r \in Requests : (Handles(r) /\ res'[r].status = 201) =>
            /\ res'[r].data.callbackUrl = req[r].callbackUrl
            /\ LogsIfRegistered(res'[r].data)
       /\ \A id \in Requests, st \in LifecycleStatuses : UpdateStatus(id, st) =>
            LET i == IndexOfId(payouts, id)
            IN  IF i # 0 /\ st \in VALID_STATUSES THEN LogsIfRegistered(payouts[i])
                ELSE callbackLog' = callbackLog
       /\ \A id \in Requests : ExpirePayout(id) =>
            LET i == IndexOfId(payouts, id)
            IN  IF i # 0 THEN LogsIfRegistered(payouts[i]) ELSE callbackLog' = callbackLog
       /\ \A id \in Requests : GetPayout(id) =>
            LET i == IndexOfId(payouts, id)
            IN  IF i # 0 /\ payouts'[i].status # payouts[i].status
                THEN payouts[i].status = PAYOUT_STATUS.PENDING
                     /\ payouts'[i].status = PAYOUT_STATUS.EXPIRED
                     /\ LogsIfRegistered(payouts[i])
                ELSE callbackLog' = callbackLog
       /\ GetPayoutByInternalId("internal_1") => callbackLog' = callbackLog]_vars

\* A payout with callback URL was created, set to pending and expired by a
\* read: the log holds three entries, all to its URL; a payout without
\* callback URL was force-expired or set to another status and has no entry.
C31_Witness ==
    /\ AnsweredPayout("Payout retrieved", PAYOUT_STATUS.EXPIRED)
    /\ last.data.callbackUrl = HttpsUrl /\ last.data.updatedAt = now /\ now > 0
    /\ Len(callbackLog) = 3
    /\ \A k \in 1..3 : callbackLog[k].url = HttpsUrl /\ callbackLog[k].payout = last.data.id
    /\ \E j \in 1..Len(payouts) :
          payouts[j].callbackUrl = <<>> /\ payouts[j].status # PAYOUT_STATUS.COMPLETED

(***************************************************************************)
(* C32.  Between resets the callback log only grows, and an entry keeps    *)
(* the url and the payload it was recorded with: what GET /test/callbacks  *)
(* shows for an earlier entry, the status of the payout in its payload     *)
(* included, is the same after a later UpdateStatus, ExpirePayout or       *)
(* expiring read of that payout.                                           *)
(***************************************************************************)
C32_EntriesKeepTheirPayload ==
    [][~Reset =>
          /\ Len(callbackLog') >= Len(callbackLog)
          /\ \A k \in 1..Len(callbackLog) :
                Shown(callbackLog', payouts')[k] = Shown(callbackLog, payouts)[k]]_vars

(***************************************************************************)
(* C33.  Between resets a stored payout is never removed; its status is    *)
(* one of pending, completed, expired, error; its amount is in 1..100000   *)
(* and its totalCost is amount + fee; a step changes nothing of a stored   *)
(* payout but its status, updatedAt and expiresAt, and expiresAt only in a *)
(* step of ExpirePayout.                                                   *)
(***************************************************************************)
C33_PayoutRecordsStable ==
    [][/\ ~Reset =>
            /\ Len(payouts') >= Len(payouts)
            /\ \A i \in 1..Len(payouts) :
                  /\ [payouts'[i] EXCEPT !.status = payouts[i].status,
                                         !.updatedAt = payouts[i].updatedAt,
                                         !.expiresAt = payouts[i].expiresAt] = payouts[i]
                  /\ payouts'[i].expiresAt # payouts[i].expiresAt =>
                        ExpirePayout(payouts[i].id)
       /\ \A i \in 1..Len(payouts') :
            /\ payouts'[i].status \in {"pending", "completed", "expired", "error"}
            /\ payouts'[i].amount \in 1..100000
            /\ payouts'[i].totalCost = payouts'[i].amount + payouts'[i].fee]_vars

\* Two payouts are stored after a funding: one was force-expired, the other
\* was set to pending and later updated or expired by a read.
C33_Witness ==
    /\ Len(payouts) = 2 /\ nFund > 0 /\ ~wasReset
    /\ payouts[1].status = PAYOUT_STATUS.EXPIRED /\ payouts[1].expiresAt < payouts[1].createdAt
    /\ payouts[2].status = PAYOUT_STATUS.EXPIRED /\ payouts[2].updatedAt > payouts[2].expiresAt
    /\ payouts[2].expiresAt > payouts[2].createdAt
(***************************************************************************)
(* C34.  A request with valid fields whose idempotency key already         *)
(* produced a payout is answered 200 with that payout also when its        *)
(* recipient has 10 payouts in the trailing hour or when the balance of    *)
(* its project is below amount + fee: it is never answered 429 or 402.     *)
(***************************************************************************)
C34_ReplayBeforeLimitAndBalance ==
    [][\A r \in Requests :
        (/\ Runs(r) /\ FieldsValid(req[r])
         /\ req[r].idempotencyKey # "" /\ WithKey(req[r].idempotencyKey) # {}
         /\ \/ InWindow(rateLimits, req[r].gamertag, now) >= 10
            \/ GetOrZero(projectBalances, req[r].projectId)
                  < req[r].amount + Fee(req[r].amount)) =>
            /\ Handles(r)
            /\ res'[r].status = 200
            /\ res'[r].data.idempotencyKey = req[r].idempotencyKey
            /\ res'[r].data.id \in {payouts[i].id : i \in 1..Len(payouts)}]_vars

\* The latest request repeats the first while its recipient has 10 payouts in
\* the hour and the balance is below its cost, and it was answered 200.
C34_Witness ==
    \E r \in Requests :
        /\ r > 1 /\ Answered(r, 200) /\ \A k \in Requests : k > r => pc[k] = "idle"
        /\ req[r] = FirstBody
        /\ InWindow(rateLimits, req[r].gamertag, now) >= 10
        /\ projectBalances[SEED_PROJECT] < req[r].amount + Fee(req[r].amount)

C36_TimeoutDoesNotReserveKey ==
    [][/\ \A r \in Requests :
            LET earlier == {k \in Requests \ {r} :
                              /\ pc[k] # "idle"
                              /\ req[k].idempotencyKey = req[r].idempotencyKey}
            IN  (/\ Runs(r) /\ req[r].idempotencyKey # ""
                 /\ earlier # {}
                 /\ \A k \in earlier : Answered(k, 504)) =>
                    \/ pc'[r] = "timeout"
                    \/ pc'[r] = "done" /\ res'[r].status = 201
                         /\ res'[r].data.id = GenerateId(r)
       /\ (/\ \A r \in Requests : pc'[r] \in {"idle", "done"}
           /\ \E r \in Requests : pc'[r] = "done" /\ res'[r].status = 201
           /\ \A r \in Requests : res'[r].status = 504 => ~res'[r].data.balanceRolledBack) =>
              LET timeouts == Cardinality({r \in Requests : res'[r].status = 504})
              IN  /\ Cardinality({i \in 1..Len(payouts') :
                                    payouts'[i].idempotencyKey = "key_1"}) = 1
                  /\ SEED_BALANCE - projectBalances'[SEED_PROJECT]
                        = (timeouts + 1) * (req'[1].amount + Fee(req'[1].amount))]_vars

\* Two requests with the key timed out without rollback, the third was created:
\* three times 1020 are deducted for one payout.
C36_Witness ==
    /\ Cardinality({k \in Requests : Answered(k, 504) /\ req[k].idempotencyKey = "key_1"}) = 2
    /\ \A k \in Requests : Answered(k, 504) => ~res[k].data.balanceRolledBack
    /\ \E r \in Requests : Answered(r, 201) /\ req[r].idempotencyKey = "key_1"
                           /\ req[r].amount = 1000
    /\ Cardinality(WithKey("key_1")) = 1
    /\ projectBalances[SEED_PROJECT] = SEED_BALANCE - 3 * 1020

(***************************************************************************)
(* Vocabulary of the properties about requests that wait in the gateway    *)
(* timeout.                                                                *)
(***************************************************************************)
\* The requests that wait in the timeout after deducting from project p.
Waiting(p) == {r \in Requests : pc[r] = "timeout" /\ req[r].projectId = p}

\* The sum of the deductions of the requests that wait.
Tentative(p) ==
    LET RECURSIVE Sum(_)
        Sum(r) == IF r = 0 THEN 0
                  ELSE Sum(r - 1) + (IF r \in Waiting(p) THEN loc[r].totalCost ELSE 0)
    IN  Sum(Len(pc))

(***************************************************************************)
(* C37.  While requests wait in the gateway timeout and rollback is on,    *)
(* their deductions are not seen by other requests: a balance read         *)
(* answers with the balance without these deductions, and a payout         *)
(* request is answered 402 only if the balance without these deductions is *)
(* below its amount + fee.                                                 *)
(***************************************************************************)
C37_TentativeDeductionIsolated ==
    [][failureInjection.rollbackOnTimeout =>
          /\ \A p \in Projects :
                (GetBalance(p) /\ Waiting(p) # {}) =>
                    /\ last'.status = 200
                    /\ last'.data.balance = projectBalances[p] + Tentative(p)
          /\ \A r \in Requests :
                (Handles(r) /\ res'[r].status = 402) =>
                    GetOrZero(projectBalances, req[r].projectId) + Tentative(req[r].projectId)
                        < req[r].amount + Fee(req[r].amount)]_vars

(***************************************************************************)
(* C38.  A reset that runs while a request waits in the gateway timeout    *)
(* with rollback on is not undone when that request completes: if the      *)
(* request is the only one made, the reset was the latest operation and    *)
(* the state is the reset state, then after the request is answered        *)
(* project_test_001 still has 100000 and no other project exists.          *)
(***************************************************************************)
C38_ResetNotUndone ==
    [][\A r \in Requests :
        (/\ Resume(r) /\ failureInjection.rollbackOnTimeout
         /\ \A k \in Requests \ {r} : pc[k] = "idle"
         /\ wasReset /\ last.message = "All data reset"
         /\ payouts = <<>> /\ projectBalances = SeededBalances) =>
            /\ res'[r].status = 504
            /\ DOMAIN projectBalances' = {"project_test_001"}
            /\ projectBalances'["project_test_001"] = 100000]_vars

(***************************************************************************)
(* Vocabulary of the properties about forced expiry.                       *)
(***************************************************************************)
\* ExpirePayout has been applied to the payout: its expiry is no longer the one
\* of its creation, createdAt + expiresIn seconds.
WasForceExpired(payout) == payout.expiresAt # payout.createdAt + payout.expiresIn * 1000

(***************************************************************************)
(* C39.  Once ExpirePayout has been applied to a payout, its expiry stays  *)
(* in the past; a GetPayout of it while it is pending (set so by a later   *)
(* UpdateStatus) stores and returns it as expired, and a GetPayout of it   *)
(* while it is completed or error (set so by a later UpdateStatus) or      *)
(* expired leaves and returns it as it is.                                 *)
(***************************************************************************)
C39_ForcedExpiryIsSticky ==
    [][/\ \A i \in 1..Len(payouts') :
            WasForceExpired(payouts'[i]) => payouts'[i].expiresAt < now'
       /\ \A id \in Requests : GetPayout(id) =>
            LET i == IndexOfId(payouts, id)
            IN  (i # 0 /\ WasForceExpired(payouts[i])) =>
                  IF payouts[i].status = PAYOUT_STATUS.PENDING
                  THEN /\ payouts'[i].status = PAYOUT_STATUS.EXPIRED
                       /\ last'.data.status = PAYOUT_STATUS.EXPIRED
                       /\ last'.data.id = id
                  ELSE /\ payouts'[i] = payouts[i]
                       /\ last'.data = payouts[i]]_vars

\* A payout was force-expired, later set to another status and then read
\* before the expiry of its creation: the read answered expired, and the
\* payout is stored as expired; another force-expired payout was later set
\* to completed or error and is still so.
C39_Witness ==
    /\ AnsweredPayout("Payout retrieved", PAYOUT_STATUS.EXPIRED)
    /\ \E i \in 1..Len(payouts) :
          /\ payouts[i].id = last.data.id /\ WasForceExpired(payouts[i])
          /\ payouts[i].status = PAYOUT_STATUS.EXPIRED
          /\ payouts[i].updatedAt > payouts[i].expiresAt + 1000
          /\ payouts[i].updatedAt = now
          /\ now < payouts[i].createdAt + payouts[i].expiresIn * 1000
    /\ \E j \in 1..Len(payouts) :
          /\ WasForceExpired(payouts[j])
          /\ payouts[j].status \in {PAYOUT_STATUS.COMPLETED, PAYOUT_STATUS.ERROR}
          /\ payouts[j].updatedAt > payouts[j].expiresAt + 1000

(***************************************************************************)
(* C40.  Under fair scheduling of the timers every payout request that has *)
(* been received is eventually answered; it is answered with one of the    *)
(* six outcomes (201 created, 200 duplicate, 400, 429, 402, 504), has no    *)
(* answer before, and once answered keeps its answer: no request is        *)
(* answered twice or left pending forever.                                 *)
(***************************************************************************)
C40_EveryRequestResolvesOnce ==
    /\ \A r \in 1..MaxReq : (pc[r] = "delay") ~> (pc[r] = "done")
    /\ \A r \in 1..MaxReq : (pc[r] = "timeout") ~> (pc[r] = "done")
    /\ [][\A r \in 1..MaxReq :
            /\ pc[r] # "done" => res[r] = NoResponse
            /\ pc'[r] = "done" => res'[r].status \in {201, 200, 400, 429, 402, 504}
            /\ pc[r] = "done" => pc'[r] = "done" /\ res'[r] = res[r]]_vars

\* Every request has been answered: one was intercepted, one created and one
\* answered as a duplicate.
C40_Witness ==
    /\ \A r \in Requests : pc[r] = "done"
    /\ \E r \in Requests : Answered(r, 504)
    /\ \E r \in Requests : Answered(r, 201)
    /\ \E r \in Requests : Answered(r, 200)
====
